---------------------------- MODULE Spec2Model ----------------------------
(***************************************************************************)
(* State-machine model of @eropple/nestjs-openapi3.                        *)
(*                                                                         *)
(*   BuilderSpec  the OpenapiBuilder API: addOperation calls over a whole  *)
(*                alphabet, with ensureSchemaFromType on one model graph.  *)
(*   SchemaSpec   the recursive ensureSchemaFromType over every graph of   *)
(*                model constructors.                                      *)
(*   ScanSpec     the scanner: module -> controller -> endpoint, the       *)
(*                metadata cascade, and the registration of operations.    *)
(*   InterceptSpec  OpenapiValidationInterceptor.intercept over requests   *)
(*                for handlers with declared bodies and parameters.        *)
(*   ConcurrentSpec  two requests for one handler interleaved at the       *)
(*                interceptor's steps.                                     *)
(*   ModelSpec    the model decorators on one class, then                  *)
(*                buildSchemaFromAnnotatedType.                            *)
(*   InferSpec, ParseSpec, PathSpec  inferSchema, parseSchemaLike and      *)
(*                convertPathForOpenAPI applied to bounded inputs.         *)
(*   PropSpec, WrapSpec, ReportSpec  buildSchemaFromAnnotatedProp,         *)
(*                wrapSpecifiedSchema and the error strings of the 400     *)
(*                response applied to bounded inputs.                      *)
(*   NameSpec     the scanner over applications whose controllers declare  *)
(*                handlers of the same name.                               *)
(*   CookieSpec   the interceptor for handlers with cookie parameters.     *)
(*   ApplySpec    checkParentMetadata / checkEndpointMetadata applied      *)
(*                repeatedly to one target.                                *)
(*   CascadeSpec  the scanner over programs with parameters and            *)
(*                deprecation at every scope.                              *)
(***************************************************************************)
EXTENDS Integers, Sequences, FiniteSets, TLC

VARIABLES
    models,     \* reflect-metadata of every model constructor (static)
    paths,      \* rootDoc.paths: path -> (method -> operation)
    schemas,    \* rootDoc.components.schemas: name -> schema
    stack,      \* the active ensureSchemaFromType frames, innermost last
    call,       \* facts about the latest builder call (kind, args, outcome)
    built       \* how often each constructor was built in the latest ensure call

builderVars == <<models, paths, schemas, stack, call, built>>

VARIABLES
    decorators, \* the application: target -> decorators, in application order
    metadata,   \* the reflect-metadata store: slot -> (key -> value)
    scan,       \* the scanner's position: phase and loop indices
    modBase,    \* scanModule's baseOpInfo
    ctlBase,    \* scanController's newBaseOpInfo
    opInfo,     \* scanEndpoint's opInfo and the operation assembled from it
    scanLog     \* per endpoint, what scanEndpoint did with it

scanVars == <<decorators, metadata, scan, modBase, ctlBase, opInfo, scanLog>>

VARIABLES
    validationCache,  \* the interceptor's cache: handler -> validation data
    builds,           \* how often buildValidationData ran, per handler
    requests,         \* how many requests the interceptor has served
    exchange,         \* the latest request, and what intercept did with it
    flights           \* the intercept calls in progress, in order of arrival

interceptVars == <<validationCache, builds, requests, exchange, flights>>

VARIABLES
    derived           \* a model class under definition and the schema built from it

schemaVars == <<derived>>

vars == <<builderVars, scanVars, interceptVars, schemaVars>>

-----------------------------------------------------------------------------
(* Bounds and alphabets *)

\* Longest list of annotated properties a model constructor declares.
MaxProps == 2

\* Model constructors.  A and B carry @Model and have their properties chosen
\* by Init; R carries @ModelRaw; U carries no model annotation at all.
Ctors == {"A", "B", "R", "U"}
Primitives == {"String"}
\* Declared types of model properties (R is reached by direct calls only).
PropTypes == {"A", "B", "U"} \cup Primitives

Paths == {"/a", "/b"}
Methods == {"get", "post"}
Ops == {"op1", "op2"}

SeqsUpTo(S, n) == UNION {[1..k -> S] : k \in 0..n}

EmptyMap == <<>>

Put(f, k, v) == [x \in (DOMAIN f) \cup {k} |-> IF x = k THEN v ELSE f[x]]

-----------------------------------------------------------------------------
(* references.ts *)

schemaReference(name) == [ref |-> "#/components/schemas/" \o name]

\* inferSchema as utils/argument-parsing.ts has it: no case for Array, which
\* is taken for a model.
inferSchemaWithoutArrayCase(type) ==
    CASE type = "Number"  -> [schema |-> [type |-> "number"], found |-> <<>>, err |-> "none"]
      [] type = "String"  -> [schema |-> [type |-> "string"], found |-> <<>>, err |-> "none"]
      [] type = "Date"    -> [schema |-> [type |-> "string", format |-> "date"],
                              found |-> <<>>, err |-> "none"]
      [] type = "Boolean" -> [schema |-> [type |-> "boolean"], found |-> <<>>, err |-> "none"]
      [] type \in {"Promise", "Object"}
                          -> [schema |-> [threw |-> type], found |-> <<>>,
                              err |-> "InferenceError"]
      [] OTHER            -> [schema |-> [ref |-> "#/components/schemas/" \o type],
                              found |-> <<type>>, err |-> "none"]

(* utils/schema.ts: inferSchema.  The result is the schema and the models  *)
(* appended to modelsToParse.                                              *)
inferSchema(type) ==
    CASE type = "Number"  -> [schema |-> [type |-> "number"], found |-> <<>>, err |-> "none"]
      [] type = "String"  -> [schema |-> [type |-> "string"], found |-> <<>>, err |-> "none"]
      [] type = "Date"    -> [schema |-> [type |-> "string", format |-> "date"],
                              found |-> <<>>, err |-> "none"]
      [] type = "Boolean" -> [schema |-> [type |-> "boolean"], found |-> <<>>, err |-> "none"]
      [] type \in {"Array", "Promise", "Object"}
                          -> [schema |-> [threw |-> type], found |-> <<>>,
                              err |-> "InferenceError"]
      [] OTHER            -> [schema |-> schemaReference(type), found |-> <<type>>,
                              err |-> "none"]

(* utils/schema.ts: buildSchemaFromAnnotatedType with the loop over        *)
(* buildSchemaFromAnnotatedProp; every property is a scalar @Prop() whose  *)
(* schema is inferred from its design:type.                                *)
RECURSIVE buildProps(_, _)
buildProps(props, i) ==
    IF i > Len(props)
    THEN [properties |-> <<>>, found |-> <<>>]
    ELSE LET one  == inferSchema(props[i])
             rest == buildProps(props, i + 1)
         IN  [properties |-> <<one.schema>> \o rest.properties,
              found      |-> one.found \o rest.found]

buildSchemaFromAnnotatedType(md, t) ==
    IF md[t].raw
    THEN [err |-> "none", schema |-> [raw |-> t], modelsToParse |-> <<>>]
    ELSE IF ~md[t].base
    THEN [err |-> "Error", schema |-> [raw |-> t], modelsToParse |-> <<>>]
    ELSE LET p == buildProps(md[t].props, 1)
         IN  [err           |-> "none",
              schema        |-> [type |-> "object", properties |-> p.properties],
              modelsToParse |-> p.found]

-----------------------------------------------------------------------------
(* builder/index.ts: OpenapiBuilder.addOperation *)

\* addOperation without the check for an existing operation.
addOperationOverwrites(ps, path, method, operation) ==
    LET withPath == IF path \in DOMAIN ps THEN ps ELSE Put(ps, path, EmptyMap)
    IN  [err   |-> "none",
         paths |-> Put(withPath, path, Put(withPath[path], method, operation))]

addOperation(ps, path, method, operation) ==
    LET withPath == IF path \in DOMAIN ps THEN ps ELSE Put(ps, path, EmptyMap)
    IN  IF method \in DOMAIN withPath[path]
        THEN [err |-> "OperationAlreadyExistsError", paths |-> withPath]
        ELSE [err   |-> "none",
              paths |-> Put(withPath, path, Put(withPath[path], method, operation))]

AddOperationCall(path, method, operation) ==
    /\ stack = <<>>
    /\ LET r == addOperation(paths, path, method, operation)
       IN  /\ paths' = r.paths
           /\ call' = [kind |-> "addOperation", path |-> path, method |-> method,
                       operation |-> operation, err |-> r.err, done |-> TRUE,
                       wasPresent |-> (path \in DOMAIN paths /\ method \in DOMAIN paths[path])]
    /\ UNCHANGED <<models, schemas, stack, built>>

-----------------------------------------------------------------------------
(* builder/index.ts: OpenapiBuilder.ensureSchemaFromType.  One invocation  *)
(* (the presence check, the build, addSchema) is Enter; the for loop over  *)
(* modelsToParse is a frame on the stack, advanced by EnsureStep.          *)

\* A presence check that never finds the schema.
presentNever(sch, t) == FALSE

present(sch, t) == t \in DOMAIN sch

\* Enter without the addSchema that precedes the loop over modelsToParse.
EnterWithoutAddSchema(sch, fr, bl, t) ==
    IF present(sch, t)
    THEN [schemas |-> sch, stack |-> fr, built |-> bl, err |-> "none"]
    ELSE LET b == buildSchemaFromAnnotatedType(models, t)
             bl2 == [bl EXCEPT ![t] = @ + 1]
         IN  IF b.err # "none"
             THEN [schemas |-> sch, stack |-> <<>>, built |-> bl2, err |-> b.err]
             ELSE [schemas |-> sch,
                   stack   |-> Append(fr, [t |-> t, pending |-> b.modelsToParse, i |-> 1]),
                   built   |-> bl2,
                   err     |-> "none"]

\* The state after entering ensureSchemaFromType(t) with frames fr below it.
Enter(sch, fr, bl, t) ==
    IF present(sch, t)
    THEN [schemas |-> sch, stack |-> fr, built |-> bl, err |-> "none"]
    ELSE LET b == buildSchemaFromAnnotatedType(models, t)
             bl2 == [bl EXCEPT ![t] = @ + 1]
         IN  IF b.err # "none"
             THEN [schemas |-> sch, stack |-> <<>>, built |-> bl2, err |-> b.err]
             ELSE [schemas |-> Put(sch, t, b.schema),
                   stack   |-> Append(fr, [t |-> t, pending |-> b.modelsToParse, i |-> 1]),
                   built   |-> bl2,
                   err     |-> "none"]

NoBuilds == [c \in Ctors |-> 0]

EnsureCall(t) ==
    /\ stack = <<>>
    /\ LET r == Enter(schemas, <<>>, NoBuilds, t)
       IN  /\ schemas' = r.schemas
           /\ stack' = r.stack
           /\ built' = r.built
           /\ call' = [kind |-> "ensure", t |-> t, err |-> r.err,
                       done |-> (r.stack = <<>>),
                       wasPresent |-> (t \in DOMAIN schemas), steps |-> 0]
    /\ UNCHANGED <<models, paths>>

EnsureStep ==
    /\ stack # <<>>
    /\ LET top  == stack[Len(stack)]
           rest == SubSeq(stack, 1, Len(stack) - 1)
       IN  \/ /\ top.i > Len(top.pending)      \* the loop is over: return
              /\ stack' = rest
              /\ call' = [call EXCEPT !.done = (rest = <<>>), !.steps = @ + 1]
              /\ UNCHANGED <<schemas, built>>
           \/ /\ top.i <= Len(top.pending)     \* this.ensureSchemaFromType(modelToParse)
              /\ LET r == Enter(schemas, Append(rest, [top EXCEPT !.i = @ + 1]),
                                built, top.pending[top.i])
                 IN  /\ schemas' = r.schemas
                     /\ stack' = r.stack
                     /\ built' = r.built
                     /\ call' = [call EXCEPT !.err = r.err,
                                             !.done = (r.stack = <<>>),
                                             !.steps = @ + 1]
    /\ UNCHANGED <<models, paths>>

-----------------------------------------------------------------------------
(* The builder's specifications *)

Annotated(props) == [raw |-> FALSE, base |-> TRUE, props |-> props]

ModelGraph(pa, pb) ==
    [c \in Ctors |->
        CASE c = "A" -> Annotated(pa)
          [] c = "B" -> Annotated(pb)
          [] c = "R" -> [raw |-> TRUE, base |-> FALSE, props |-> <<"B">>]
          [] OTHER   -> [raw |-> FALSE, base |-> FALSE, props |-> <<>>]]

ModelMetadata ==
    {ModelGraph(pa, pb) : pa \in SeqsUpTo(PropTypes, MaxProps),
                          pb \in SeqsUpTo(PropTypes, MaxProps)}

NoCall == [kind |-> "none", done |-> TRUE, err |-> "none"]

\* BuilderSpec: every addOperation call over the whole alphabet, interleaved
\* with ensure calls over one graph of mutually referring models.
IdleInterceptor ==
    /\ validationCache = EmptyMap
    /\ builds = EmptyMap
    /\ requests = 0
    /\ exchange = EmptyMap
    /\ flights = <<>>

IdleScanner ==
    /\ decorators = EmptyMap
    /\ metadata = EmptyMap
    /\ scan = [phase |-> "off"]
    /\ modBase = EmptyMap
    /\ ctlBase = EmptyMap
    /\ opInfo = EmptyMap
    /\ scanLog = EmptyMap

BuilderInit ==
    /\ IdleScanner /\ IdleInterceptor
    /\ derived = EmptyMap
    /\ models = ModelGraph(<<"B", "A">>, <<"A", "R">>)
    /\ paths = EmptyMap
    /\ schemas = EmptyMap
    /\ stack = <<>>
    /\ call = NoCall
    /\ built = NoBuilds

BuilderNext ==
    \/ \E p \in Paths, m \in Methods, o \in Ops :
            AddOperationCall(p, m, o) /\ UNCHANGED <<scanVars, interceptVars, schemaVars>>
    \/ \E t \in Ctors : EnsureCall(t) /\ UNCHANGED <<scanVars, interceptVars, schemaVars>>
    \/ EnsureStep /\ UNCHANGED <<scanVars, interceptVars, schemaVars>>

BuilderSpec == BuilderInit /\ [][BuilderNext]_vars

\* SchemaSpec: ensure calls over every graph of models, interleaved with
\* addOperation calls on one (path, method).
SchemaInit ==
    /\ IdleScanner /\ IdleInterceptor
    /\ derived = EmptyMap
    /\ models \in ModelMetadata
    /\ paths = EmptyMap
    /\ schemas = EmptyMap
    /\ stack = <<>>
    /\ call = NoCall
    /\ built = NoBuilds

SchemaNext ==
    \/ AddOperationCall("/a", "get", "op1") /\ UNCHANGED <<scanVars, interceptVars, schemaVars>>
    \/ \E t \in Ctors : EnsureCall(t) /\ UNCHANGED <<scanVars, interceptVars, schemaVars>>
    \/ EnsureStep /\ UNCHANGED <<scanVars, interceptVars, schemaVars>>

SchemaSpec == SchemaInit /\ [][SchemaNext]_vars

-----------------------------------------------------------------------------
(* Claims about the builder *)

Registered(ps, p, m) == p \in DOMAIN ps /\ m \in DOMAIN ps[p]

Entry(ps, p, m) == IF Registered(ps, p, m) THEN ps[p][m] ELSE "absent"

C1_Step ==
    call'.kind = "addOperation" =>
        IF Registered(paths, call'.path, call'.method)
        THEN /\ call'.err = "OperationAlreadyExistsError"
             /\ paths' = paths
        ELSE /\ call'.err = "none"
             /\ Entry(paths', call'.path, call'.method) = call'.operation
             /\ \A p \in Paths, m \in Methods :
                    <<p, m>> # <<call'.path, call'.method>>
                        => Entry(paths', p, m) = Entry(paths, p, m)
             /\ DOMAIN paths' = DOMAIN paths \cup {call'.path}

\* C1: an addOperation call on a registered (path, method) fails with
\* OperationAlreadyExistsError and changes nothing in paths; a call on an
\* unregistered pair succeeds, stores the operation, creates the path entry
\* on first use and leaves every other entry as it was.
C1_AddOperationUnique == [][C1_Step]_vars

\* A rejected call whose operation differs from the one stored.
C1_Witness ==
    /\ call.kind = "addOperation"
    /\ call.err = "OperationAlreadyExistsError"
    /\ Entry(paths, call.path, call.method) # call.operation
    /\ Cardinality(DOMAIN paths) = 2

Range(q) == {q[i] : i \in DOMAIN q}

IsAnnotated(t) == models[t].raw \/ models[t].base

\* The pending list that building t discovers.
PendingOf(t) ==
    LET b == buildSchemaFromAnnotatedType(models, t)
    IN  IF b.err = "none" THEN Range(b.modelsToParse) ELSE {}

RECURSIVE ReachFrom(_, _)
ReachFrom(S, n) ==
    IF n = 0 THEN S
    ELSE ReachFrom(S \cup UNION {PendingOf(t) : t \in S}, n - 1)

Reach(t) == ReachFrom({t}, Cardinality(Ctors))

C2_FirstCall ==
    (call.kind = "ensure" /\ call.done /\ IsAnnotated(call.t))
        => call.t \in DOMAIN schemas

C2_Stable ==
    \A t \in DOMAIN schemas : t \in DOMAIN schemas' /\ schemas'[t] = schemas[t]

C2_LaterCall ==
    (stack = <<>> /\ call'.kind = "ensure" /\ call'.steps = 0
        /\ call'.t \in DOMAIN schemas)
        => /\ schemas' = schemas
           /\ built' = NoBuilds
           /\ stack' = <<>>
           /\ call'.done /\ call'.err = "none"

\* C2: ensureSchemaFromType is idempotent.  Once a call for an annotated
\* constructor has returned, its name is in components.schemas; an entry,
\* once there, is never changed or removed by any later call; and a call for
\* a constructor whose name is there returns at once, building nothing and
\* leaving components.schemas as it was.
C2_EnsureIdempotent == [](C2_FirstCall) /\ [][C2_Stable /\ C2_LaterCall]_vars

\* A repeated call for A, after an addOperation call, that built nothing.
C2_Witness ==
    /\ call.kind = "ensure" /\ call.t = "A" /\ call.wasPresent /\ call.done
    /\ built = NoBuilds
    /\ Registered(paths, "/a", "get")
    /\ {"A", "B"} \subseteq DOMAIN schemas

\* Every step of a call increments call.steps, and a step is enabled as long
\* as a frame is on the stack: a bound on call.steps bounds the call.
StepBudget == Cardinality(Ctors) * (MaxProps + 1)

C3_Returned == call.kind = "ensure" /\ call.done /\ call.err = "none"

\* C3: ensureSchemaFromType(C) terminates on every graph of models, cyclic
\* ones included; no model is built twice during the call; and when the call
\* returns, C is in components.schemas together with the pending list of
\* every model the call built, hence, when every model reachable from C is
\* annotated, together with every model reachable from C.
C3_EnsureTerminatesClosed ==
    call.kind = "ensure" =>
        /\ call.steps <= StepBudget
        /\ call.done = (stack = <<>>)
        /\ \A c \in Ctors : built[c] <= 1
        /\ C3_Returned =>
            /\ call.t \in DOMAIN schemas
            /\ \A m \in Ctors : built[m] = 1 => PendingOf(m) \subseteq DOMAIN schemas
            /\ (\A m \in Reach(call.t) : IsAnnotated(m))
                    => Reach(call.t) \subseteq DOMAIN schemas

\* A returned call for A where A refers to itself and A and B to each other.
C3_Witness ==
    /\ C3_Returned /\ call.t = "A"
    /\ "A" \in PendingOf("A") /\ "B" \in PendingOf("A") /\ "A" \in PendingOf("B")
    /\ built["A"] = 1 /\ built["B"] = 1

-----------------------------------------------------------------------------
(* Values of the scanner.  A path is a sequence of characters; an object   *)
(* whose key order matters is a sequence of <<key, value>> pairs.          *)

AlphaNum ==
    {"a", "b", "c", "d", "e", "f", "g", "h", "i", "j", "k", "l", "m",
     "n", "o", "p", "q", "r", "s", "t", "u", "v", "w", "x", "y", "z",
     "A", "B", "C", "D", "E", "F", "G", "H", "I", "J", "K", "L", "M",
     "N", "O", "P", "Q", "R", "S", "T", "U", "V", "W", "X", "Y", "Z",
     "0", "1", "2", "3", "4", "5", "6", "7", "8", "9"}

ObjKeys(obj) == {obj[i][1] : i \in DOMAIN obj}

ObjGet(obj, k) == obj[CHOOSE i \in DOMAIN obj : obj[i][1] = k][2]

ObjSet(obj, kv) ==
    IF kv[1] \in ObjKeys(obj)
    THEN [i \in DOMAIN obj |-> IF obj[i][1] = kv[1] THEN kv ELSE obj[i]]
    ELSE Append(obj, kv)

\* { ...a, ...b }
RECURSIVE ObjSpread(_, _)
ObjSpread(a, b) ==
    IF b = <<>> THEN a ELSE ObjSpread(ObjSet(a, Head(b)), Tail(b))

\* The scopes argument of SecurityScheme: a list of scopes, or null.
Scopes(s) == [null |-> FALSE, scopes |-> s]
NullScopes == [null |-> TRUE, scopes |-> <<>>]

-----------------------------------------------------------------------------
(* decorators/metadata-keys.ts *)

METHOD == "method"
PATH == "path"
OPENAPI_IGNORE == "@eropple/nestjs-openapi:Operation:Ignore"
OPENAPI_OPERATION_INFO == "@eropple/nestjs-openapi:Operation:OperationInfo"
OPENAPI_TAGS == "@eropple/nestjs-openapi:Operation:Tags"
OPENAPI_DEPRECATED == "@eropple/nestjs-openapi:Operation:Deprecated"
OPENAPI_SECURITY_SCHEMES == "@eropple/nestjs-openapi:Operation:SecurityScheme"
OPENAPI_PARAMETER == "@eropple/nestjs-openapi:Operation:Parameter"
OPENAPI_REQUEST_BODY == "@eropple/nestjs-openapi:Operation:RequestBody"
OPENAPI_INTERNAL_MODELS_TO_PARSE == "@eropple/nestjs-openapi:Internal:ModelsToParse"

-----------------------------------------------------------------------------
(* utils/metadata.ts over the reflect-metadata store.  Metadata lives in   *)
(* slots: on a class, on a handler function, on a handler function under   *)
(* its property key, and on a controller prototype under a property key.   *)

ClassSlot(c) == <<"class", c>>
FnSlot(e) == <<"function", e>>
FnKeySlot(e) == <<"function+key", e>>
ProtoKeySlot(e) == <<"prototype+key", e>>

\* Reflect.getMetadataKeys / Reflect.getMetadata of one slot.
Slot(store, slot) == IF slot \in DOMAIN store THEN store[slot] ELSE EmptyMap

defineMetadata(store, k, v, slot) == Put(store, slot, Put(Slot(store, slot), k, v))

getAllMetadata(store, o) == Slot(store, o)

getAllParameterMetadata(store, e) == Slot(store, ProtoKeySlot(e))

appendArrayMetadata(store, metadataKey, metadataValue, slot) ==
    LET current == IF metadataKey \in DOMAIN Slot(store, slot)
                   THEN Slot(store, slot)[metadataKey] ELSE <<>>
    IN  defineMetadata(store, metadataKey, current \o metadataValue, slot)

mergeObjectMetadata(store, metadataKey, metadataValue, slot) ==
    LET current == IF metadataKey \in DOMAIN Slot(store, slot)
                   THEN Slot(store, slot)[metadataKey] ELSE <<>>
    IN  defineMetadata(store, metadataKey, ObjSpread(current, metadataValue), slot)

\* A decorator is applied to a class (target only) or to a method (target,
\* key and descriptor).  SetMetadata defines on descriptor.value without key.
SetMetadata(store, k, v, target) ==
    defineMetadata(store, k, v,
        IF target.kind = "method" THEN FnSlot(target.id) ELSE ClassSlot(target.id))

\* ExtendArrayMetadata appends on descriptor.value under the property key.
ExtendArrayMetadata(store, metadataKey, metadataValue, target) ==
    appendArrayMetadata(store, metadataKey, metadataValue,
        IF target.kind = "method" THEN FnKeySlot(target.id) ELSE ClassSlot(target.id))

\* ExtendObjectMetadata merges on the target (the prototype) under the key.
ExtendObjectMetadata(store, metadataKey, metadataValue, target) ==
    mergeObjectMetadata(store, metadataKey, metadataValue,
        IF target.kind = "method" THEN ProtoKeySlot(target.id) ELSE ClassSlot(target.id))


-----------------------------------------------------------------------------
(* The decorators.  Apply(store, d, target) is the effect of decorator d.  *)

\* decorators/endpoints/informational.ts
Ignore(store, v, target) == SetMetadata(store, OPENAPI_IGNORE, v, target)

Tags(store, tags, target) == ExtendArrayMetadata(store, OPENAPI_TAGS, tags, target)

Deprecated(store, v, target) == SetMetadata(store, OPENAPI_DEPRECATED, v, target)

Operation(store, info, target) == SetMetadata(store, OPENAPI_OPERATION_INFO, info, target)

\* Parameter(p): the parameter is merged into OPENAPI_PARAMETER by name.
Parameter(store, p, target) ==
    ExtendObjectMetadata(store, OPENAPI_PARAMETER, <<<<p.name, p>>>>, target)

SecurityScheme(store, schemeName, scopes, target) ==
    mergeObjectMetadata(store, OPENAPI_SECURITY_SCHEMES, <<<<schemeName, scopes>>>>,
        IF target.kind = "method" THEN ProtoKeySlot(target.id) ELSE ClassSlot(target.id))

\* @nestjs/common: Controller(prefix) defines PATH on the class, and a
\* request mapping defines PATH and METHOD on the handler function.
NestController(store, prefix, target) ==
    defineMetadata(store, PATH, prefix, ClassSlot(target.id))

NestRequestMapping(store, method, route, target) ==
    defineMetadata(defineMetadata(store, PATH, route, FnSlot(target.id)),
                   METHOD, method, FnSlot(target.id))

\* decorators/endpoints/handler-methods.ts: buildHandlerMethod with an info
\* argument whose single response has the constructor info.content.
buildHandlerMethod(store, method, route, info, target) ==
    LET content == inferSchema(info.content)
        op == [deprecated |-> info.deprecated,
               responses  |-> [default |-> [description |-> "No description given.",
                                            content |-> content.schema]]]
        withModels == appendArrayMetadata(store, OPENAPI_INTERNAL_MODELS_TO_PARSE,
                                          content.found, ProtoKeySlot(target.id))
    IN  NestRequestMapping(Operation(withModels, op, target), method, route, target)

Apply(store, d, target) ==
    CASE d.dec = "Ignore"         -> Ignore(store, d.v, target)
      [] d.dec = "Tags"           -> Tags(store, d.tags, target)
      [] d.dec = "Deprecated"     -> Deprecated(store, d.v, target)
      [] d.dec = "Parameter"      -> Parameter(store, d.p, target)
      [] d.dec = "SetMetadata"    -> SetMetadata(store, d.k, d.v, target)
      [] d.dec = "SecurityScheme" -> SecurityScheme(store, d.schemeName, d.scopes, target)
      [] d.dec = "Controller"     -> NestController(store, d.prefix, target)
      [] d.dec = "RequestMapping" -> NestRequestMapping(store, d.method, d.route, target)
      [] d.dec = "OAS.Method"     -> buildHandlerMethod(store, d.method, d.route, d.info, target)

RECURSIVE ApplyAll(_, _, _)
ApplyAll(store, ds, target) ==
    IF ds = <<>> THEN store
    ELSE ApplyAll(Apply(store, Head(ds), target), Tail(ds), target)

-----------------------------------------------------------------------------
(* scanner/metadata-checks.ts *)

Truthy(m, k) == k \in DOMAIN m /\ m[k] = TRUE

checkIgnore(m, op) ==
    IF Truthy(m, OPENAPI_IGNORE) THEN [op EXCEPT !.ignore = m[OPENAPI_IGNORE]] ELSE op

checkPathChunks(m, op) ==
    IF PATH \in DOMAIN m /\ m[PATH] # <<>>
    THEN [op EXCEPT !.pathChunks = Append(@, m[PATH])] ELSE op

checkDeprecated(m, op) ==
    IF Truthy(m, OPENAPI_DEPRECATED) THEN [op EXCEPT !.deprecated = "true"] ELSE op

checkTags(m, op) ==
    IF OPENAPI_TAGS \in DOMAIN m
    THEN [op EXCEPT !.tags = @ \o m[OPENAPI_TAGS]] ELSE op

checkSecuritySchemes(m, op) ==
    IF OPENAPI_SECURITY_SCHEMES \in DOMAIN m
    THEN [op EXCEPT !.securitySchemes = ObjSpread(@, m[OPENAPI_SECURITY_SCHEMES])]
    ELSE op

\* checkParameters in which the parameters already there win.
checkParametersKeepingFirst(m, op) ==
    IF OPENAPI_PARAMETER \in DOMAIN m
    THEN [op EXCEPT !.parameters = ObjSpread(m[OPENAPI_PARAMETER], @)] ELSE op

\* checkParameters that appends the metadata's parameters.
checkParametersAppending(m, op) ==
    IF OPENAPI_PARAMETER \in DOMAIN m
    THEN [op EXCEPT !.parameters = @ \o m[OPENAPI_PARAMETER]] ELSE op

checkParameters(m, op) ==
    IF OPENAPI_PARAMETER \in DOMAIN m
    THEN [op EXCEPT !.parameters = ObjSpread(@, m[OPENAPI_PARAMETER])] ELSE op

checkRequestBody(m, op) ==
    IF OPENAPI_REQUEST_BODY \in DOMAIN m
    THEN [op EXCEPT !.requestBody = m[OPENAPI_REQUEST_BODY]] ELSE op

\* checkModels that takes no model over.
checkModelsNever(m, op) == op

checkModels(m, op) ==
    IF OPENAPI_INTERNAL_MODELS_TO_PARSE \in DOMAIN m
    THEN [op EXCEPT !.modelsToParse = @ \o m[OPENAPI_INTERNAL_MODELS_TO_PARSE]] ELSE op

checkOperationInfo(m, op) ==
    IF OPENAPI_OPERATION_INFO \in DOMAIN m
    THEN [op EXCEPT !.deprecated = m[OPENAPI_OPERATION_INFO].deprecated,
                    !.responses = m[OPENAPI_OPERATION_INFO].responses]
    ELSE op

checkParentMetadata(m, baseOpInfo) ==
    LET a == checkIgnore(m, baseOpInfo)
    IN  IF a.ignore THEN a
        ELSE checkModels(m, checkSecuritySchemes(m, checkDeprecated(m,
                checkPathChunks(m, checkParameters(m, checkTags(m, a))))))

checkEndpointMetadata(m, op) ==
    LET a == checkIgnore(m, op)
    IN  IF a.ignore THEN a
        ELSE checkModels(m, checkSecuritySchemes(m, checkDeprecated(m,
                checkTags(m, checkPathChunks(m, checkParameters(m,
                    checkOperationInfo(m, a)))))))

checkEndpointArgumentMetadata(m, op) ==
    checkModels(m, checkSecuritySchemes(m, checkParameters(m, checkRequestBody(m, op))))


-----------------------------------------------------------------------------
(* scanner/index.ts: the pure parts *)

MethodIntToString ==
    (0 :> "get") @@ (1 :> "post") @@ (2 :> "put") @@ (3 :> "delete")
        @@ (4 :> "patch") @@ (6 :> "options") @@ (7 :> "head")

\* pathChunks.join('/')
RECURSIVE join(_)
join(chunks) ==
    IF chunks = <<>> THEN <<>>
    ELSE IF Len(chunks) = 1 THEN chunks[1]
    ELSE chunks[1] \o <<"/">> \o join(Tail(chunks))

RECURSIVE trimLeft(_, _)
trimLeft(str, ch) ==
    IF str # <<>> /\ Head(str) = ch THEN trimLeft(Tail(str), ch) ELSE str

RECURSIVE trimRight(_, _)
trimRight(str, ch) ==
    IF str # <<>> /\ str[Len(str)] = ch
    THEN trimRight(SubSeq(str, 1, Len(str) - 1), ch) ELSE str

\* Voca.trim(str, ch)
trim(str, ch) == trimRight(trimLeft(str, ch), ch)

\* The length of the longest run of [a-z0-9] characters (any case) at i.
RECURSIVE nameRun(_, _)
nameRun(str, i) ==
    IF i <= Len(str) /\ str[i] \in AlphaNum THEN 1 + nameRun(str, i + 1) ELSE 0

\* str.replace(/:([a-z0-9]+)/gi, '{$1}'), from position i on
RECURSIVE replaceParams(_, _)
replaceParams(str, i) ==
    IF i > Len(str) THEN <<>>
    ELSE LET n == nameRun(str, i + 1)
         IN  IF str[i] = ":" /\ n > 0
             THEN <<"{">> \o SubSeq(str, i + 1, i + n) \o <<"}">>
                      \o replaceParams(str, i + n + 1)
             ELSE <<str[i]>> \o replaceParams(str, i + 1)

convertPathForOpenAPI(pathChunks) ==
    <<"/">> \o replaceParams(trim(join(pathChunks), "/"), 1)

\* stripNullsAndUndefinedFromObject that keeps the null entries.
stripNothing(obj) == obj

stripNullsAndUndefinedFromObject(obj) == SelectSeq(obj, LAMBDA kv : ~kv[2].null)

\* scanModule's fresh baseOpInfo (ignore is absent, hence falsy).
FreshBaseOpInfo ==
    [ignore |-> FALSE, tags |-> <<>>, pathChunks |-> <<>>, deprecated |-> "undefined",
     parameters |-> <<>>, modelsToParse |-> <<>>, securitySchemes |-> <<>>]

\* scanEndpoint: opInfo = { ...baseOpInfo, name, nestMethodIndex, ... }
NewOpInfo(baseOpInfo, name, nestMethodIndex) ==
    [ignore |-> baseOpInfo.ignore, tags |-> baseOpInfo.tags,
     pathChunks |-> baseOpInfo.pathChunks, deprecated |-> baseOpInfo.deprecated,
     parameters |-> baseOpInfo.parameters, modelsToParse |-> baseOpInfo.modelsToParse,
     securitySchemes |-> baseOpInfo.securitySchemes,
     name |-> name, nestMethodIndex |-> nestMethodIndex,
     responses |-> EmptyMap, requestBody |-> "undefined"]

oasOperation(op) ==
    [tags |-> op.tags, operationId |-> op.name, deprecated |-> op.deprecated,
     parameters |-> [i \in DOMAIN op.parameters |-> op.parameters[i][2]],
     requestBody |-> op.requestBody, responses |-> op.responses,
     security |-> <<stripNullsAndUndefinedFromObject(op.securitySchemes)>>]

-----------------------------------------------------------------------------
(* The application under scan: module M with controllers K1 (handlers e1,  *)
(* e2) and K2 (handler e3 and a plain method h).                           *)

Modules == <<"M">>
ControllersOf(mod) == <<"K1", "K2">>
CandidatesOf(ctl) == IF ctl = "K1" THEN <<"e1", "e2">> ELSE <<"e3", "h">>
Endpoints == {"e1", "e2", "e3"}
ControllerOf(e) == IF e \in {"e1", "e2"} THEN "K1" ELSE "K2"
ModuleOf(e) == "M"
Targets == <<"M", "K1", "K2", "e1", "e2", "e3", "h">>

Target(id) ==
    [kind |-> IF id \in {"M", "K1", "K2"} THEN "class" ELSE "method", id |-> id]

IgnoreChoices == {<<>>, <<[dec |-> "Ignore", v |-> TRUE]>>}

TagsChoices(t) == {<<>>, <<[dec |-> "Tags", tags |-> <<t>>]>>}

SecurityChoices(s) ==
    {<<>>,
     <<[dec |-> "SecurityScheme", schemeName |-> "tok", scopes |-> Scopes(<<s>>)]>>,
     <<[dec |-> "SecurityScheme", schemeName |-> "tok", scopes |-> NullScopes]>>,
     <<[dec |-> "SecurityScheme", schemeName |-> "key", scopes |-> Scopes(<<>>)],
       [dec |-> "SecurityScheme", schemeName |-> "tok", scopes |-> Scopes(<<s>>)]>>}

RouteChoices == {<<"/">>, <<":", "i", "d">>}

\* The response model of e2 and the request method of e3 (5 is Nest's ALL).
RestChoices ==
    {[content |-> "A", method |-> 0], [content |-> "U", method |-> 0],
     [content |-> "A", method |-> 5]}

Program(onM, onK1, onE1, route, rest) ==
    [id \in {Targets[i] : i \in DOMAIN Targets} |->
        CASE id = "M"  -> onM
          [] id = "K1" -> onK1 \o <<[dec |-> "Controller", prefix |-> <<"k">>]>>
          [] id = "K2" -> <<[dec |-> "Controller", prefix |-> <<"j">>]>>
          [] id = "e1" -> onE1 \o <<[dec |-> "RequestMapping", method |-> 0, route |-> route]>>
          [] id = "e2" -> <<[dec |-> "OAS.Method", method |-> 1, route |-> <<"/">>,
                             info |-> [deprecated |-> "undefined",
                                       content |-> rest.content]]>>
          [] id = "e3" -> <<[dec |-> "RequestMapping", method |-> rest.method,
                             route |-> <<"/">>]>>
          [] OTHER     -> <<>>]

Annotations(t, s) ==
    {i \o g \o c : i \in IgnoreChoices, g \in TagsChoices(t), c \in SecurityChoices(s)}

Programs ==
    {Program(onM, onK1, onE1, route, rest) :
        onM \in Annotations("a", "m"), onK1 \in Annotations("b", "c"),
        onE1 \in Annotations("c", "e"), route \in RouteChoices, rest \in RestChoices}

RECURSIVE Decorate(_, _, _)
Decorate(store, program, i) ==
    IF i > Len(Targets) THEN store
    ELSE Decorate(ApplyAll(store, program[Targets[i]], Target(Targets[i])), program, i + 1)


-----------------------------------------------------------------------------
(* scanner/index.ts: scan, scanModule, scanController, scanEndpoint.  Each *)
(* action is one step of the scan; the calls of ensureSchemaFromType run   *)
(* through EnsureCall and EnsureStep.                                      *)

Log(outcome, path, method) == [outcome |-> outcome, path |-> path, method |-> method]

\* The fields of an operation info that hold objects the copy shares with the
\* info it was copied from.  scanController copies with _.cloneDeep, which
\* shares nothing; scanEndpoint copies with a spread, which shares every
\* array and object but pathChunks, copied apart.
SharedByCloneDeep == {}

\* The spread without the copy of pathChunks.
SharedBySpreadAlone ==
    {"tags", "parameters", "modelsToParse", "securitySchemes", "pathChunks"}

SharedBySpread == {"tags", "parameters", "modelsToParse", "securitySchemes"}

\* The fields the check functions change in place: checkPathChunks pushes,
\* every other one assigns a new array or object to its field.
ChangedInPlace == {"pathChunks"}

\* The info copied from, after the check functions ran on the copy: a shared
\* object changed in place is changed for both.
WrittenThrough(baseOpInfo, op, shared) ==
    [f \in DOMAIN baseOpInfo |->
        IF f \in shared \cap ChangedInPlace THEN op[f] ELSE baseOpInfo[f]]

\* endpoint.name: the name the handler was declared under in its class.  An
\* application that gives no names declares each handler under its id.
FunctionName(endpoint) ==
    IF "names" \in DOMAIN decorators THEN decorators["names"][endpoint] ELSE endpoint

\* scan: the loop over the modules; scanModule up to its loop.
ScanModule ==
    /\ scan.phase = "module"
    /\ IF scan.mi > Len(Modules)
       THEN /\ scan' = [scan EXCEPT !.phase = "done"]
            /\ UNCHANGED modBase
       ELSE /\ modBase' = checkParentMetadata(
                    getAllMetadata(metadata, ClassSlot(Modules[scan.mi])), FreshBaseOpInfo)
            /\ scan' = [scan EXCEPT !.phase = "controller", !.ci = 1]
    /\ UNCHANGED <<interceptVars, schemaVars>>
    /\ UNCHANGED <<builderVars, decorators, metadata, ctlBase, opInfo, scanLog>>

\* scanModule's loop over the controllers; scanController up to its loop.
ScanController ==
    /\ scan.phase = "controller"
    /\ LET ctls == ControllersOf(Modules[scan.mi])
       IN  IF scan.ci > Len(ctls)
           THEN /\ scan' = [scan EXCEPT !.phase = "module", !.mi = @ + 1]
                /\ UNCHANGED <<modBase, ctlBase>>
           ELSE /\ ctlBase' = checkParentMetadata(
                        getAllMetadata(metadata, ClassSlot(ctls[scan.ci])), modBase)
                /\ modBase' = WrittenThrough(modBase, ctlBase', SharedByCloneDeep)
                /\ scan' = [scan EXCEPT !.phase = "endpoint", !.ei = 1]
    /\ UNCHANGED <<interceptVars, schemaVars>>
    /\ UNCHANGED <<builderVars, decorators, metadata, opInfo, scanLog>>

\* scanController's loop over the candidates; scanEndpoint up to its loop
\* over opInfo.modelsToParse.
ScanEndpoint ==
    /\ scan.phase = "endpoint"
    /\ LET cands == CandidatesOf(ControllersOf(Modules[scan.mi])[scan.ci])
       IN  IF scan.ei > Len(cands)
           THEN /\ scan' = [scan EXCEPT !.phase = "controller", !.ci = @ + 1]
                /\ UNCHANGED <<opInfo, scanLog, ctlBase>>
           ELSE LET endpoint == cands[scan.ei]
                    endpointMetadata == getAllMetadata(metadata, FnSlot(endpoint))
                IN  IF METHOD \notin DOMAIN endpointMetadata
                    THEN /\ scanLog' = Put(scanLog, endpoint, Log("no method", <<>>, ""))
                         /\ scan' = [scan EXCEPT !.ei = @ + 1]
                         /\ UNCHANGED <<opInfo, ctlBase>>
                    ELSE IF Truthy(endpointMetadata, OPENAPI_IGNORE)
                    THEN /\ scanLog' = Put(scanLog, endpoint, Log("ignored", <<>>, ""))
                         /\ scan' = [scan EXCEPT !.ei = @ + 1]
                         /\ UNCHANGED <<opInfo, ctlBase>>
                    ELSE LET op == checkEndpointArgumentMetadata(
                                      getAllParameterMetadata(metadata, endpoint),
                                      checkEndpointMetadata(endpointMetadata,
                                          NewOpInfo(ctlBase, FunctionName(endpoint),
                                                    endpointMetadata[METHOD])))
                         IN  /\ opInfo' = [info |-> op, oasOperation |-> oasOperation(op),
                                         endpoint |-> endpoint]
                             /\ ctlBase' = WrittenThrough(ctlBase, op, SharedBySpread)
                             /\ scan' = [scan EXCEPT !.phase = "models", !.xi = 1]
                             /\ UNCHANGED scanLog
    /\ UNCHANGED <<interceptVars, schemaVars>>
    /\ UNCHANGED <<builderVars, decorators, metadata, modBase>>

\* scanEndpoint: builder.ensureSchemaFromType(modelToParse)
ScanEnsure ==
    /\ scan.phase = "models"
    /\ stack = <<>> /\ call.err = "none"
    /\ scan.xi <= Len(opInfo.info.modelsToParse)
    /\ EnsureCall(opInfo.info.modelsToParse[scan.xi])
    /\ scan' = [scan EXCEPT !.xi = @ + 1]
    /\ UNCHANGED <<interceptVars, schemaVars>>
    /\ UNCHANGED <<decorators, metadata, modBase, ctlBase, opInfo, scanLog>>

\* An error thrown by ensureSchemaFromType ends the scan.
ScanEnsureThrew ==
    /\ scan.phase = "models"
    /\ stack = <<>> /\ call.err # "none"
    /\ scan' = [scan EXCEPT !.phase = "failed"]
    /\ scanLog' = Put(scanLog, opInfo.endpoint, Log(call.err, <<>>, ""))
    /\ UNCHANGED <<interceptVars, schemaVars>>
    /\ UNCHANGED <<builderVars, decorators, metadata, modBase, ctlBase, opInfo>>

\* scanEndpoint after the loop: the path, the method, builder.addOperation.
ScanRegister ==
    /\ scan.phase = "models"
    /\ stack = <<>> /\ call.err = "none"
    /\ scan.xi > Len(opInfo.info.modelsToParse)
    /\ LET adjustedPath == convertPathForOpenAPI(opInfo.info.pathChunks)
           index == opInfo.info.nestMethodIndex
       IN  IF index \notin DOMAIN MethodIntToString
           THEN /\ scan' = [scan EXCEPT !.phase = "failed"]
                /\ scanLog' = Put(scanLog, opInfo.endpoint,
                                  Log("UnrecognizedNestMethodNumberError", adjustedPath, ""))
                /\ UNCHANGED builderVars
           ELSE LET openapiMethod == MethodIntToString[index]
                    r == addOperation(paths, adjustedPath, openapiMethod,
                                      opInfo.oasOperation)
                IN  /\ AddOperationCall(adjustedPath, openapiMethod, opInfo.oasOperation)
                    /\ scanLog' = Put(scanLog, opInfo.endpoint,
                            Log(IF r.err = "none" THEN "registered" ELSE r.err,
                                adjustedPath, openapiMethod))
                    /\ scan' = IF r.err = "none"
                               THEN [scan EXCEPT !.phase = "endpoint", !.ei = @ + 1]
                               ELSE [scan EXCEPT !.phase = "failed"]
    /\ UNCHANGED <<interceptVars, schemaVars>>
    /\ UNCHANGED <<decorators, metadata, modBase, ctlBase, opInfo>>

ScanInit ==
    /\ IdleInterceptor
    /\ derived = EmptyMap
    /\ models = ModelGraph(<<"B", "A">>, <<"A", "String">>)
    /\ paths = EmptyMap
    /\ schemas = EmptyMap
    /\ stack = <<>>
    /\ call = NoCall
    /\ built = NoBuilds
    /\ decorators \in Programs
    /\ metadata = Decorate(EmptyMap, decorators, 1)
    /\ scan = [phase |-> "module", mi |-> 1, ci |-> 0, ei |-> 0, xi |-> 0]
    /\ modBase = FreshBaseOpInfo
    /\ ctlBase = FreshBaseOpInfo
    /\ opInfo = EmptyMap
    /\ scanLog = EmptyMap

ScanNext ==
    \/ ScanModule
    \/ ScanController
    \/ ScanEndpoint
    \/ ScanEnsure
    \/ ScanEnsureThrew
    \/ ScanRegister
    \/ (scan.phase = "models" /\ EnsureStep /\ UNCHANGED <<scanVars, interceptVars, schemaVars>>)

ScanSpec == ScanInit /\ [][ScanNext]_vars


-----------------------------------------------------------------------------
(* The scanner's claims *)

Carries(id, dec) == \E i \in DOMAIN decorators[id] : decorators[id][i].dec = dec

\* The places <<path, method>> of the document that hold an operation of e.
OperationsOf(e) ==
    {pm \in UNION {{<<p, m>> : m \in DOMAIN paths[p]} : p \in DOMAIN paths} :
        paths[pm[1]][pm[2]].operationId = e}

UnderIgnore(e) == Carries(ControllerOf(e), "Ignore") \/ Carries(ModuleOf(e), "Ignore")

\* C4: after a scan, an endpoint that carries Ignore, or whose controller or
\* module carries Ignore, has no operation under any path or method of the
\* document's paths.
C4_IgnoredHasNoEntry ==
    scan.phase = "done" =>
        \A e \in Endpoints :
            (Carries(e, "Ignore") \/ UnderIgnore(e)) => OperationsOf(e) = {}

\* The argument of the Tags decorators on a target, in application order.
RECURSIVE TagsOn(_)
TagsOn(ds) ==
    IF ds = <<>> THEN <<>>
    ELSE (IF Head(ds).dec = "Tags" THEN Head(ds).tags ELSE <<>>) \o TagsOn(Tail(ds))

\* C5: the tags of the operation registered for an endpoint are the tags of
\* its module, then of its controller, then its own, in order and with
\* duplicates: ["a","b","c"] for Tags("a") on the module, Tags("b") on the
\* controller and Tags("c") on the endpoint.
C5_TagsCascade ==
    \A e \in Endpoints : \A pm \in OperationsOf(e) :
        ~UnderIgnore(e) =>
            paths[pm[1]][pm[2]].tags =
                TagsOn(decorators[ModuleOf(e)]) \o TagsOn(decorators[ControllerOf(e)])
                    \o TagsOn(decorators[e])

\* The SecurityScheme decorators that reach an endpoint, widest scope first.
RECURSIVE SchemeWrites(_)
SchemeWrites(ds) ==
    IF ds = <<>> THEN <<>>
    ELSE (IF Head(ds).dec = "SecurityScheme" THEN <<Head(ds)>> ELSE <<>>)
            \o SchemeWrites(Tail(ds))

WritesFor(e) ==
    SchemeWrites(decorators[ModuleOf(e)] \o decorators[ControllerOf(e)] \o decorators[e])

HasWrite(e, name) == \E i \in DOMAIN WritesFor(e) : WritesFor(e)[i].schemeName = name

LatestWrite(e, name) ==
    LET w == WritesFor(e)
        i == CHOOSE k \in DOMAIN w :
                /\ w[k].schemeName = name
                /\ \A j \in DOMAIN w : w[j].schemeName = name => j <= k
    IN  w[i].scopes

SchemeNames == {"tok", "key"}

-----------------------------------------------------------------------------
(* Request values and ajv.  A value carries its JavaScript type; a raw     *)
(* parameter of a request is a string or undefined.                        *)

Str(str) == [t |-> "string", n |-> 0, s |-> str]
Num(num) == [t |-> "number", n |-> num, s |-> ""]
Undefined == [t |-> "undefined", n |-> 0, s |-> ""]

\* +data, for the strings that are numbers
StringToNumber == ("42" :> 42) @@ ("7" :> 7)
\* '' + data
NumberToString == (42 :> "42") @@ (7 :> "7")

\* name.toLowerCase()
toLowerCase(name) == IF name = "X-N" THEN "x-n" ELSE name

INTERNAL_WRAPPER == "__$wrap__"

\* The validator ajv compiles from wrapSpecifiedSchema(schema) under the
\* options coerceTypes and useDefaults, called on { __$wrap__: inValue }.
\* The result is ajv's verdict, the wrapped value afterwards (ajv coerces in
\* place) and validator.errors.
validator(schema, inValue) ==
    LET fail(dataPath, message) ==
            [valid |-> FALSE, value |-> inValue,
             errors |-> <<[dataPath |-> dataPath, message |-> message]>>]
        pass(value) == [valid |-> TRUE, value |-> value, errors |-> <<>>]
    IN  CASE inValue.t = "undefined" ->
                fail("", "should have required property '" \o INTERNAL_WRAPPER \o "'")
          [] inValue.t = schema.type -> pass(inValue)
          [] schema.type = "number" /\ inValue.t = "string"
                /\ inValue.s \in DOMAIN StringToNumber ->
                pass(Num(StringToNumber[inValue.s]))
          [] schema.type = "string" /\ inValue.t = "number" ->
                pass(Str(NumberToString[inValue.n]))
          [] OTHER -> fail("." \o INTERNAL_WRAPPER, "should be " \o schema.type)

-----------------------------------------------------------------------------
(* decorators/endpoints/arguments.ts: the argument decorators define on    *)
(* the controller prototype under the handler's property key.              *)

OPENAPI_PARAMETER_BY_INDEX == "@eropple/nestjs-openapi:Operation:Parameter:ByIndex"
OPENAPI_REQUEST_INDEX == "@eropple/nestjs-openapi:Operation:RequestBody:Index"

\* A Map keeps its keys in insertion order.
addToMapMetadata(store, metadataKey, mapKey, mapValue, slot) ==
    LET current == IF metadataKey \in DOMAIN Slot(store, slot)
                   THEN Slot(store, slot)[metadataKey] ELSE <<>>
    IN  defineMetadata(store, metadataKey, ObjSet(current, <<mapKey, mapValue>>), slot)

\* Body({ multiContent: content })
Body(store, content, parameterIndex, target) ==
    LET requestBody == [content |-> [i \in DOMAIN content |->
                            <<content[i][1], [schema |-> content[i][2]]>>]]
    IN  defineMetadata(
            defineMetadata(store, OPENAPI_REQUEST_INDEX, parameterIndex,
                           ProtoKeySlot(target.id)),
            OPENAPI_REQUEST_BODY, requestBody, ProtoKeySlot(target.id))

\* Path, Query and Header differ in the value of 'in' (and Path is required).
\* "Cookie" is an argument decorator of the application that records a
\* parameter with in: 'cookie' the way these three do.
ArgumentParameter(store, in, name, schema, parameterIndex, target) ==
    LET parameter == [name |-> name, in |-> in, schema |-> schema]
    IN  mergeObjectMetadata(
            addToMapMetadata(store, OPENAPI_PARAMETER_BY_INDEX, parameterIndex,
                             parameter, ProtoKeySlot(target.id)),
            OPENAPI_PARAMETER, <<<<name, parameter>>>>, ProtoKeySlot(target.id))

Path(store, name, schema, parameterIndex, target) ==
    ArgumentParameter(store, "path", name, schema, parameterIndex, target)

Query(store, name, schema, parameterIndex, target) ==
    ArgumentParameter(store, "query", name, schema, parameterIndex, target)

Header(store, name, schema, parameterIndex, target) ==
    ArgumentParameter(store, "header", name, schema, parameterIndex, target)

ApplyArgument(store, d, target) ==
    CASE d.dec = "Body"   -> Body(store, d.content, d.parameterIndex, target)
      [] d.dec = "Path"   -> Path(store, d.name, d.schema, d.parameterIndex, target)
      [] d.dec = "Query"  -> Query(store, d.name, d.schema, d.parameterIndex, target)
      [] d.dec = "Header" -> Header(store, d.name, d.schema, d.parameterIndex, target)
      [] d.dec = "Cookie" ->
            ArgumentParameter(store, "cookie", d.name, d.schema, d.parameterIndex, target)
      [] d.dec = "Parameter" -> Parameter(store, d.p, target)

RECURSIVE ApplyArguments(_, _, _)
ApplyArguments(store, ds, target) ==
    IF ds = <<>> THEN store
    ELSE ApplyArguments(ApplyArgument(store, Head(ds), target), Tail(ds), target)


-----------------------------------------------------------------------------
(* openapi-validation.interceptor.ts *)

\* Most parameters a handler declares, and most requests served in a run.
MaxParams == 2
MaxRequests == 2

\* The members every plain object inherits from Object.prototype that can be
\* called as a plain function and return a truthy value.
ObjectPrototype == {"toString", "constructor"}

\* obj[key] on a plain object built by _.fromPairs.
property(obj, key) ==
    IF key \in ObjKeys(obj) THEN [kind |-> "own", schema |-> ObjGet(obj, key)]
    ELSE IF key \in ObjectPrototype THEN [kind |-> "inherited", schema |-> [type |-> ""]]
    ELSE [kind |-> "undefined", schema |-> [type |-> ""]]

\* The validators are kept as the schemas they were compiled from.
buildValidationData(endpointMetadata) ==
    LET hasBody == /\ OPENAPI_REQUEST_INDEX \in DOMAIN endpointMetadata
                   /\ OPENAPI_REQUEST_BODY \in DOMAIN endpointMetadata
        content == endpointMetadata[OPENAPI_REQUEST_BODY].content
        parameterMap == endpointMetadata[OPENAPI_PARAMETER_BY_INDEX]
    IN  [hasBody    |-> hasBody,
         validators |-> IF hasBody
                        THEN [i \in DOMAIN content |->
                                <<content[i][1], content[i][2].schema>>]
                        ELSE <<>>,
         parameters |-> IF OPENAPI_PARAMETER_BY_INDEX \in DOMAIN endpointMetadata
                        THEN [i \in DOMAIN parameterMap |->
                                [name |-> parameterMap[i][2].name,
                                 argPosition |-> parameterMap[i][1],
                                 parameter |-> parameterMap[i][2]]]
                        ELSE <<>>]

Lookup(collection, name) ==
    IF name \in DOMAIN collection THEN collection[name] ELSE Undefined

\* The parameter is read as undefined whatever its location.
getParameterOrUndefined(request, parameter) ==
    CASE parameter.in = "header" -> Lookup(request.headers, toLowerCase(parameter.name))
      [] parameter.in = "query"  -> Lookup(request.query, parameter.name)
      [] parameter.in = "path"   -> Lookup(request.params, parameter.name)
      [] OTHER                   -> Undefined

\* throw new Error('Cookie parameters are unsupported.')
Thrown == [t |-> "throw", n |-> 0, s |-> "Cookie parameters are unsupported."]

getParameterFromRequest(request, parameter) ==
    CASE parameter.in = "cookie" -> Thrown
      [] parameter.in = "header" -> Lookup(request.headers, toLowerCase(parameter.name))
      [] parameter.in = "query"  -> Lookup(request.query, parameter.name)
      [] parameter.in = "path"   -> Lookup(request.params, parameter.name)
      [] OTHER                   -> Undefined

\* setParameterInRequest that writes nothing.
setParameterNowhere(request, parameter, value) == request

setParameterInRequest(request, parameter, value) ==
    CASE parameter.in = "header" ->
            [request EXCEPT !.headers = Put(@, toLowerCase(parameter.name), value)]
      [] parameter.in = "query"  -> [request EXCEPT !.query = Put(@, parameter.name, value)]
      [] parameter.in = "path"   -> [request EXCEPT !.params = Put(@, parameter.name, value)]
      [] OTHER                   -> request

\* errors.push(...) that keeps only the errors of the first failing validator.
pushFirstOnly(errors, label, validatorErrors) ==
    IF errors # <<>> THEN errors
    ELSE [i \in DOMAIN validatorErrors |-> <<label, validatorErrors[i]>>]

\* errors.push(...validatorErrors.map(e => [label, e]))
push(errors, label, validatorErrors) ==
    errors \o [i \in DOMAIN validatorErrors |-> <<label, validatorErrors[i]>>]

Event(ev, name) == [ev |-> ev, name |-> name]

\* The loop over validationData.parameters, from position i on.  A throw of
\* getParameterFromRequest ends intercept.
RECURSIVE validateParameters(_, _, _)
validateParameters(validationParameters, i, acc) ==
    IF i > Len(validationParameters) THEN acc
    ELSE LET vp == validationParameters[i]
             inValue == getParameterFromRequest(acc.request, vp.parameter)
         IN  IF inValue.t = "throw"
             THEN [acc EXCEPT !.threw = TRUE]
             ELSE LET r == validator(vp.parameter.schema, inValue)
                      validated == Append(acc.trace, Event("validator", vp.name))
                  IN  validateParameters(validationParameters, i + 1,
                        IF r.valid
                        THEN [acc EXCEPT
                                !.request = setParameterInRequest(@, vp.parameter, r.value),
                                !.trace = Append(validated,
                                            Event("setParameterInRequest", vp.name))]
                        ELSE [acc EXCEPT
                                !.errors = push(@, "parameter '" \o vp.name \o "'", r.errors),
                                !.trace = validated])

\* The error strings of the 400 response.  No data path of the model holds
\* '.__$wrap__.', so the data paths are written as they are.
message(errors) ==
    [i \in DOMAIN errors |->
        errors[i][1] \o ": " \o errors[i][2].dataPath \o " " \o errors[i][2].message]

\* intercept after validationData is at hand.  status 0: no response was
\* written by the interceptor.
intercepted(validationData, request) ==
    LET contentType ==
            IF Lookup(request.headers, "content-type").s # ""
            THEN request.headers["content-type"].s ELSE "application/json"
        bodyValidator == property(validationData.validators, contentType)
        start == [request |-> request, errors |-> <<>>, trace |-> <<>>, threw |-> FALSE]
    IN  IF validationData.hasBody /\ bodyValidator.kind = "undefined"
        THEN [status |-> 415,
              errors |-> <<"Unsupported body content type: " \o contentType>>,
              collected |-> <<>>, handled |-> FALSE, threw |-> FALSE, request |-> request,
              trace |-> <<Event("observableResponse", "415")>>]
        ELSE LET bodyErrors ==
                    IF validationData.hasBody /\ bodyValidator.kind = "own"
                    THEN validator(bodyValidator.schema, request.body).errors
                    ELSE <<>>
                 afterBody ==
                    IF validationData.hasBody
                    THEN [start EXCEPT !.errors = push(@, "request body", bodyErrors),
                                       !.trace = <<Event("bodyValidator", contentType)>>]
                    ELSE start
                 done == validateParameters(validationData.parameters, 1, afterBody)
             IN  [status |-> IF ~done.threw /\ done.errors # <<>> THEN 400 ELSE 0,
                  errors |-> IF done.threw THEN <<>> ELSE message(done.errors),
                  collected |-> done.errors,
                  handled |-> ~done.threw /\ done.errors = <<>>,
                  threw |-> done.threw,
                  request |-> done.request,
                  trace |-> IF done.threw THEN done.trace
                            ELSE IF done.errors # <<>>
                            THEN Append(done.trace, Event("observableResponse", "400"))
                            ELSE Append(done.trace, Event("next.handle", ""))]

\* What the latest call of intercept did.
Exchange(handler, request, hit, r) ==
    [handler |-> handler, before |-> request, cacheHit |-> hit,
     status |-> r.status, errors |-> r.errors, collected |-> r.collected,
     handled |-> r.handled, threw |-> r.threw, after |-> r.request, trace |-> r.trace]

\* intercept.  The cache is read and never written: the validationCache.set
\* of line 114 is commented out.
Intercept(handler, request) ==
    /\ requests < MaxRequests
    /\ LET hit == handler \in DOMAIN validationCache
           validationData ==
                IF hit THEN validationCache[handler]
                ELSE buildValidationData(getAllParameterMetadata(metadata, handler))
       IN  /\ validationCache' = validationCache
           /\ builds' = IF hit THEN builds ELSE [builds EXCEPT ![handler] = @ + 1]
           /\ exchange' = Exchange(handler, request, hit,
                                   intercepted(validationData, request))
    /\ requests' = requests + 1
    /\ UNCHANGED <<builderVars, scanVars, schemaVars, flights>>

Handlers == {"H1", "H2"}

NumberSchema == [type |-> "number"]
StringSchema == [type |-> "string"]

ParameterPool ==
    {[dec |-> "Query", name |-> "n", schema |-> NumberSchema],
     [dec |-> "Header", name |-> "X-N", schema |-> NumberSchema],
     [dec |-> "Path", name |-> "id", schema |-> StringSchema]}

\* The argument decorators of a handler: a body for application/json at
\* position 0 or none, and distinct parameters at the positions from 1 on.
HandlerDeclarations ==
    {(IF withBody
      THEN <<[dec |-> "Body", content |-> <<<<"application/json", NumberSchema>>>>,
              parameterIndex |-> 0]>>
      ELSE <<>>)
        \o [i \in DOMAIN ps |-> [dec |-> ps[i].dec, name |-> ps[i].name,
                                 schema |-> ps[i].schema, parameterIndex |-> i]] :
        withBody \in BOOLEAN,
        ps \in {q \in SeqsUpTo(ParameterPool, MaxParams) :
                    \A i, j \in DOMAIN q : i # j => q[i] # q[j]}}

RawValues == {Undefined, Str("42"), Str("abc")}

\* The content-type header of a request; "" is a request without one.
ContentTypes == {"", "application/json", "application/xml", "toString"}

Bodies == {Num(42), Str("abc")}

Supplied(name, value) == IF value.t = "undefined" THEN EmptyMap ELSE Put(EmptyMap, name, value)

Request(contentType, body, n, xn, id) ==
    [headers |-> LET h == Supplied("x-n", xn)
                 IN  IF contentType = "" THEN h ELSE Put(h, "content-type", Str(contentType)),
     query   |-> Supplied("n", n),
     params  |-> Supplied("id", id),
     body    |-> body]

Requests ==
    {Request(contentType, body, n, xn, id) :
        contentType \in ContentTypes, body \in Bodies,
        n \in RawValues, xn \in {Str("42"), Str("abc")}, id \in {Undefined, Str("abc")}}

\* Requests for H2, which declares the query parameter n alone.
PlainRequests == {Request("", Num(42), n, Undefined, Undefined) : n \in RawValues}

InterceptInit ==
    /\ models = EmptyMap
    /\ paths = EmptyMap
    /\ schemas = EmptyMap
    /\ stack = <<>>
    /\ call = NoCall
    /\ built = NoBuilds
    /\ \E d \in HandlerDeclarations :
            decorators = [h \in Handlers |->
                            IF h = "H1" THEN d
                            ELSE <<[dec |-> "Query", name |-> "n",
                                    schema |-> NumberSchema, parameterIndex |-> 0]>>]
    /\ metadata = ApplyArguments(
                      ApplyArguments(EmptyMap, decorators["H1"], Target("H1")),
                      decorators["H2"], Target("H2"))
    /\ scan = [phase |-> "off"]
    /\ modBase = EmptyMap
    /\ ctlBase = EmptyMap
    /\ opInfo = EmptyMap
    /\ scanLog = EmptyMap
    /\ validationCache = EmptyMap
    /\ builds = [h \in Handlers |-> 0]
    /\ requests = 0
    /\ exchange = EmptyMap
    /\ flights = <<>>
    /\ derived = EmptyMap

InterceptNext ==
    \/ \E request \in Requests : Intercept("H1", request)
    \/ \E request \in PlainRequests : Intercept("H2", request)

InterceptSpec == InterceptInit /\ [][InterceptNext]_vars

-----------------------------------------------------------------------------
(* The interceptor's claims *)

Served == requests > 0

\* The parameters the handler of the exchange declares, in the order of the
\* decorators, and the body it declares.
RECURSIVE DeclaredParameters(_)
DeclaredParameters(ds) ==
    IF ds = <<>> THEN <<>>
    ELSE (IF Head(ds).dec \in {"Path", "Query", "Header"} THEN <<Head(ds)>> ELSE <<>>)
            \o DeclaredParameters(Tail(ds))

DeclaresBody(h) == \E i \in DOMAIN decorators[h] : decorators[h][i].dec = "Body"

DeclaredMediaTypes(h) ==
    UNION {ObjKeys(decorators[h][i].content) :
            i \in {k \in DOMAIN decorators[h] : decorators[h][k].dec = "Body"}}

\* The value of a declared parameter in a request: its collection, its name.
ValueIn(request, p) ==
    CASE p.dec = "Query"  -> Lookup(request.query, p.name)
      [] p.dec = "Path"   -> Lookup(request.params, p.name)
      [] p.dec = "Header" -> Lookup(request.headers, IF p.name = "X-N" THEN "x-n" ELSE p.name)

\* A raw value validates against a schema of the model after coercion.
Validates(raw, schema) ==
    /\ raw.t # "undefined"
    /\ schema.type = "number" => (raw.t = "number" \/ raw.s \in {"42", "7"})

Coerced(raw, schema) ==
    IF schema.type = "number" /\ raw.t = "string"
    THEN (IF raw.s = "42" THEN Num(42) ELSE Num(7))
    ELSE raw

Label(p) == "parameter '" \o p.name \o "'"

Positions(ev, name) ==
    {i \in DOMAIN exchange.trace : exchange.trace[i] = Event(ev, name)}

ContentTypeOf(request) ==
    IF "content-type" \in DOMAIN request.headers
    THEN request.headers["content-type"].s ELSE "application/json"


C8_UnsupportedTypeIs415 ==
    (/\ Served
     /\ DeclaresBody(exchange.handler)
     /\ ContentTypeOf(exchange.before) \notin DeclaredMediaTypes(exchange.handler)) =>
        /\ exchange.status = 415
        /\ exchange.errors =
                <<"Unsupported body content type: " \o ContentTypeOf(exchange.before)>>
        /\ exchange.trace = <<Event("observableResponse", "415")>>
        /\ exchange.after = exchange.before
        /\ ~exchange.handled

\* The labels of the errors a request must collect: the body's if the body
\* fails its validator, then the failing parameters' in declaration order.
BodyFails ==
    LET h == exchange.handler
        contentType == ContentTypeOf(exchange.before)
    IN  /\ DeclaresBody(h)
        /\ contentType \in DeclaredMediaTypes(h)
        /\ \E i \in DOMAIN decorators[h] :
                /\ decorators[h][i].dec = "Body"
                /\ ~Validates(exchange.before.body,
                              ObjGet(decorators[h][i].content, contentType))

FailingParameters ==
    SelectSeq(DeclaredParameters(decorators[exchange.handler]),
              LAMBDA p : ~Validates(ValueIn(exchange.before, p), p.schema))

ExpectedLabels ==
    (IF BodyFails THEN <<"request body">> ELSE <<>>)
        \o [i \in DOMAIN FailingParameters |-> Label(FailingParameters[i])]

Responses == {i \in DOMAIN exchange.trace : exchange.trace[i].ev = "observableResponse"}
Handlings == {i \in DOMAIN exchange.trace : exchange.trace[i].ev = "next.handle"}

C10_BuiltAtMostOnce == \A h \in DOMAIN builds : builds[h] <= 1



-----------------------------------------------------------------------------
\* Concurrent requests.  intercept, lines 108-174, cut at its reads and
\* writes of the interceptor's state: the cache lookup of line 111, the build
\* of line 113 (whose result line 114 would store, were it not commented
\* out) and the validation of lines 123-173.  Any number of calls up to
\* MaxFlights are in progress and their steps interleave freely, which is
\* more than a single-threaded runtime allows for a synchronous function.

MaxFlights == 2

\* The requests of the concurrent calls for H1; H2 is sent PlainRequests.
FlightRequests ==
    {Request(contentType, Num(42), n, Str("42"), Str("abc")) :
        contentType \in {"", "application/xml"}, n \in {Str("42"), Str("abc")}}

\* validationData held by the interceptor instead of by the call.
assignSharedValidationData(fs, i, validationData) ==
    [j \in DOMAIN fs |->
        IF j = i \/ fs[j].pc = "validate"
        THEN [pc |-> "validate", handler |-> fs[j].handler, request |-> fs[j].request,
              validationData |-> validationData]
        ELSE fs[j]]

\* `let validationData`, lines 111-113: a local of the call.
assignValidationData(fs, i, validationData) ==
    [fs EXCEPT ![i] = [pc |-> "validate", handler |-> fs[i].handler,
                       request |-> fs[i].request, validationData |-> validationData]]

FlightArrive(handler, request) ==
    /\ Len(flights) < MaxFlights
    /\ flights' = Append(flights, [pc |-> "get", handler |-> handler, request |-> request])
    /\ UNCHANGED <<builderVars, scanVars, schemaVars, validationCache, builds, requests, exchange>>

\* Line 111: this.validationCache.get(handler).
FlightGet(i) ==
    /\ flights[i].pc = "get"
    /\ flights' = IF flights[i].handler \in DOMAIN validationCache
                  THEN assignValidationData(flights, i, validationCache[flights[i].handler])
                  ELSE [flights EXCEPT ![i].pc = "build"]
    /\ UNCHANGED <<builderVars, scanVars, schemaVars, validationCache, builds, requests, exchange>>

\* Lines 112-115: the build; the cache is left as it is.
FlightBuild(i) ==
    /\ flights[i].pc = "build"
    /\ flights' = assignValidationData(flights, i,
                    buildValidationData(getAllParameterMetadata(metadata, flights[i].handler)))
    /\ builds' = [builds EXCEPT ![flights[i].handler] = @ + 1]
    /\ validationCache' = validationCache
    /\ UNCHANGED <<builderVars, scanVars, schemaVars, requests, exchange>>

\* Lines 117-173.
FlightValidate(i) ==
    /\ flights[i].pc = "validate"
    /\ flights' = [flights EXCEPT ![i] =
                    [pc |-> "done", handler |-> flights[i].handler,
                     request |-> flights[i].request,
                     validationData |-> flights[i].validationData,
                     outcome |-> intercepted(flights[i].validationData, flights[i].request)]]
    /\ UNCHANGED <<builderVars, scanVars, schemaVars, validationCache, builds, requests, exchange>>

ConcurrentNext ==
    \/ \E request \in FlightRequests : FlightArrive("H1", request)
    \/ \E request \in PlainRequests : FlightArrive("H2", request)
    \/ \E i \in DOMAIN flights : FlightGet(i)
    \/ \E i \in DOMAIN flights : FlightBuild(i)
    \/ \E i \in DOMAIN flights : FlightValidate(i)

ConcurrentSpec == InterceptInit /\ [][ConcurrentNext]_vars

\* What intercept does with a request when no other call is in progress.
Alone(handler, request) ==
    intercepted(buildValidationData(getAllParameterMetadata(metadata, handler)), request)

Holding(i) == flights[i].pc \in {"validate", "done"}

-----------------------------------------------------------------------------
(* decorators/model-decorators and utils/schema.ts over the metadata store: *)
(* a model class is declared with its decorators, the decorators run as the *)
(* class is defined, and buildSchemaFromAnnotatedType reads what they left. *)

OPENAPI_MODEL_RAW == "@eropple/nestjs-openapi:Model:Raw"
OPENAPI_MODEL_BASE == "@eropple/nestjs-openapi:Model:Base"
OPENAPI_MODEL_PROP_RAW == "@eropple/nestjs-openapi:Model:PropRaw"
OPENAPI_MODEL_PROP == "@eropple/nestjs-openapi:Model:Prop"
OPENAPI_MODEL_PROP_ARRAY == "@eropple/nestjs-openapi:Model:PropArray"
OPENAPI_MODEL_PROP_REQUIRED == "@eropple/nestjs-openapi:Model:PropRequired"
DESIGN_TYPE == "design:type"

\* The metadata of a prototype itself, without property key.
ProtoSlot(c) == <<"prototype", c>>

\* Object.defineProperty(target, key, ...): the key becomes an own property
\* of the prototype, after those it has.
defineProperty(names, key) ==
    IF \E i \in DOMAIN names : names[i] = key THEN names ELSE Append(names, key)

\* SetMetadata, lines 69-94, with all its props and on each kind of target: a
\* property (key, no descriptor) is defined on the prototype and the metadata
\* goes to the prototype WITHOUT the key (line 91); a method's goes to
\* descriptor.value; a class's to the class.
RECURSIVE SetAllMetadata(_, _, _)
SetAllMetadata(store, props, target) ==
    IF props = <<>> THEN store
    ELSE SetAllMetadata(
            defineMetadata(store, Head(props)[1], Head(props)[2],
                CASE target.kind = "property" -> ProtoSlot(target.class)
                  [] target.kind = "method"   -> FnSlot(target.id)
                  [] OTHER                    -> ClassSlot(target.id)),
            Tail(props), target)

ModelRaw(store, schema, target) ==
    SetAllMetadata(store, <<<<OPENAPI_MODEL_RAW, schema>>>>, target)

Model(store, schemaInfo, target) ==
    SetAllMetadata(store, <<<<OPENAPI_MODEL_BASE, schemaInfo>>>>, target)

\* opts defaults to { required: true }.
PropRaw(store, schema, opts, target) ==
    SetAllMetadata(store, <<<<OPENAPI_MODEL_PROP_RAW, schema>>,
                            <<OPENAPI_MODEL_PROP_REQUIRED, opts.required>>>>, target)

Prop(store, args, opts, target) ==
    SetAllMetadata(store, <<<<OPENAPI_MODEL_PROP, args>>,
                            <<OPENAPI_MODEL_PROP_REQUIRED, opts.required>>>>, target)

ArrayProp(store, args, target) ==
    SetAllMetadata(store, <<<<OPENAPI_MODEL_PROP_ARRAY, args>>>>, target)

\* SchemaLike values: a constructor, a one-element array, a reference object
\* (a record with the field ref), or a schema object whose allOf, anyOf,
\* oneOf and items may hold SchemaLikes again.
Ctor(name) == [ctor |-> name]
ArrayOf(c) == [array |-> c]
IsCtor(c) == "ctor" \in DOMAIN c
IsArray(c) == "array" \in DOMAIN c
isReferenceObject(c) == "ref" \in DOMAIN c

\* parseSchemaLike, lines 19-48.  The result carries the models pushed to
\* modelsToParse and the error thrown, after which nothing more is parsed.
RECURSIVE parseSchemaLike(_)
RECURSIVE parseEach(_, _, _)
parseEach(subs, i, acc) ==
    IF i > Len(subs) \/ acc.err # "none" THEN acc
    ELSE LET one == parseSchemaLike(subs[i])
         IN  parseEach(subs, i + 1,
                [schema |-> Append(acc.schema, one.schema),
                 found  |-> acc.found \o one.found,
                 err    |-> one.err])

parseSchemaLike(c) ==
    IF IsCtor(c) THEN inferSchema(c.ctor)
    ELSE IF IsArray(c)
    THEN LET items == parseSchemaLike(c.array)
         IN  [schema |-> [type |-> "array", items |-> items.schema],
              found |-> items.found, err |-> items.err]
    ELSE IF isReferenceObject(c) THEN [schema |-> c, found |-> <<>>, err |-> "none"]
    ELSE LET start == [schema |-> <<>>, found |-> <<>>, err |-> "none"]
             allOf == IF "allOf" \in DOMAIN c THEN parseEach(c.allOf, 1, start) ELSE start
             anyOf == IF "anyOf" \in DOMAIN c
                      THEN parseEach(c.anyOf, 1, [start EXCEPT !.err = allOf.err])
                      ELSE [start EXCEPT !.err = allOf.err]
             oneOf == IF "oneOf" \in DOMAIN c
                      THEN parseEach(c.oneOf, 1, [start EXCEPT !.err = anyOf.err])
                      ELSE [start EXCEPT !.err = anyOf.err]
         IN  [schema |-> [k \in DOMAIN c |->
                            CASE k = "allOf" -> allOf.schema
                              [] k = "anyOf" -> anyOf.schema
                              [] k = "oneOf" -> oneOf.schema
                              [] OTHER       -> c[k]],
              found  |-> allOf.found \o anyOf.found \o oneOf.found,
              err    |-> oneOf.err]

Has(propMetadata, k) == k \in DOMAIN propMetadata

\* buildSchemaFromAnnotatedProp, lines 146-195: the schema under
\* construction with the property added, or as it was.
buildSchemaFromAnnotatedProp(acc, propName, propMetadata) ==
    LET rawProp    == Has(propMetadata, OPENAPI_MODEL_PROP_RAW)
        normalProp == Has(propMetadata, OPENAPI_MODEL_PROP)
        arrayProp  == Has(propMetadata, OPENAPI_MODEL_PROP_ARRAY)
        isProp     == rawProp \/ normalProp \/ arrayProp
        required   == /\ Has(propMetadata, OPENAPI_MODEL_PROP_REQUIRED)
                      /\ propMetadata[OPENAPI_MODEL_PROP_REQUIRED]
        args       == propMetadata[OPENAPI_MODEL_PROP]
        inferred   == IF "type" \notin DOMAIN args /\ "format" \notin DOMAIN args
                      THEN inferSchema(propMetadata[DESIGN_TYPE])
                      ELSE [schema |-> EmptyMap, found |-> <<>>, err |-> "none"]
        spread     == inferred.schema @@ args
        items      == parseSchemaLike(propMetadata[OPENAPI_MODEL_PROP_ARRAY].items)
        prop ==
            IF rawProp
            THEN [schema |-> propMetadata[OPENAPI_MODEL_PROP_RAW],
                  found |-> <<>>, err |-> "none"]
            ELSE IF normalProp
            THEN [schema |-> IF "ref" \in DOMAIN spread /\ Cardinality(DOMAIN spread) > 1
                             THEN [k \in (DOMAIN spread \ {"ref"}) \cup {"oneOf"} |->
                                     IF k = "oneOf" THEN <<[ref |-> spread.ref]>>
                                     ELSE spread[k]]
                             ELSE spread,
                  found |-> inferred.found, err |-> inferred.err]
            ELSE [schema |-> [type |-> "array", items |-> items.schema]
                                @@ propMetadata[OPENAPI_MODEL_PROP_ARRAY],
                  found |-> items.found, err |-> items.err]
    IN  IF ~isProp \/ acc.err # "none" THEN acc
        ELSE IF prop.err # "none"
        THEN [acc EXCEPT !.err = prop.err, !.modelsToParse = @ \o prop.found]
        ELSE [err           |-> "none",
              properties    |-> ObjSet(acc.properties, <<propName, prop.schema>>),
              required      |-> IF required THEN Append(acc.required, propName)
                                ELSE acc.required,
              modelsToParse |-> acc.modelsToParse \o prop.found]

RECURSIVE buildSchemaFromProps(_, _, _)
buildSchemaFromProps(store, propNames, acc) ==
    IF propNames = <<>> THEN acc
    ELSE buildSchemaFromProps(store, Tail(propNames),
            buildSchemaFromAnnotatedProp(acc, Head(propNames),
                getAllParameterMetadata(store, Head(propNames))))

\* buildSchemaFromAnnotatedType, lines 108-144, reading the store; ownNames
\* is Object.getOwnPropertyNames(type.prototype) without 'constructor'.
buildSchemaFromPrototype(store, ownNames, type) ==
    LET typeMetadata == getAllMetadata(store, ClassSlot(type))
    IN  IF Has(typeMetadata, OPENAPI_MODEL_RAW)
        THEN [err |-> "none", raw |-> TRUE, schema |-> typeMetadata[OPENAPI_MODEL_RAW],
              modelsToParse |-> <<>>]
        ELSE IF ~Has(typeMetadata, OPENAPI_MODEL_BASE)
        THEN [err |-> "Error", raw |-> FALSE, schema |-> EmptyMap, modelsToParse |-> <<>>]
        ELSE LET done == buildSchemaFromProps(store, ownNames,
                            [err |-> "none", properties |-> <<>>, required |-> <<>>,
                             modelsToParse |-> <<>>])
             IN  [err |-> done.err, raw |-> FALSE,
                  schema |-> (IF done.required = <<>> THEN EmptyMap
                              ELSE [required |-> done.required])
                                @@ [type |-> "object", properties |-> done.properties]
                                @@ typeMetadata[OPENAPI_MODEL_BASE],
                  modelsToParse |-> done.modelsToParse]

\* A model class C: its class decorator and its members in declaration order,
\* each a field or a method with at most one property annotation and the
\* design:type the compiler emits beside a decorator.  "Reflect.metadata" is
\* reflect-metadata's own decorator writing OPENAPI_MODEL_PROP under the key.
MemberNames == <<"a", "b", "c">>

DesignTypes == {"String", "B"}

FieldAnnotations ==
    {[dec |-> "none"],
     [dec |-> "Prop", args |-> EmptyMap, opts |-> [required |-> TRUE]],
     [dec |-> "Prop", args |-> EmptyMap, opts |-> [required |-> FALSE]],
     [dec |-> "Prop", args |-> [description |-> "d"], opts |-> [required |-> TRUE]],
     [dec |-> "PropRaw", schema |-> [type |-> "string"], opts |-> [required |-> TRUE]],
     [dec |-> "PropRaw", schema |-> [type |-> "string"], opts |-> [required |-> FALSE]],
     [dec |-> "ArrayProp", args |-> [items |-> Ctor("B")]],
     [dec |-> "Reflect.metadata", args |-> EmptyMap]}

MethodAnnotations ==
    {[dec |-> "none"], [dec |-> "Reflect.metadata", args |-> EmptyMap]}

Members ==
    {[kind |-> "field", ann |-> a, designType |-> t] :
        a \in FieldAnnotations, t \in DesignTypes}
    \cup {[kind |-> "method", ann |-> a, designType |-> "Function"] :
            a \in MethodAnnotations}

ClassDecorators == {"Model", "ModelRaw", "none"}

ClassDeclarations ==
    {[class |-> d, members |-> ms] :
        d \in ClassDecorators, ms \in SeqsUpTo(Members, MaxProps)}

\* The own property names of the prototype before any decorator ran: the
\* methods, in declaration order.
RECURSIVE MethodNames(_, _)
MethodNames(members, i) ==
    IF i > Len(members) THEN <<>>
    ELSE (IF members[i].kind = "method" THEN <<MemberNames[i]>> ELSE <<>>)
            \o MethodNames(members, i + 1)

\* The decorators of member i: design:type under the key first, then the
\* annotation.
DecorateMember(rt, member, i) ==
    LET name   == MemberNames[i]
        target == [kind |-> IF member.kind = "field" THEN "property" ELSE "method",
                   id |-> name, class |-> "C"]
        typed  == IF member.ann.dec = "none" THEN rt.store
                  ELSE defineMetadata(rt.store, DESIGN_TYPE, member.designType,
                                      ProtoKeySlot(name))
    IN  CASE member.ann.dec = "none" -> rt
          [] member.ann.dec = "Reflect.metadata" ->
                [rt EXCEPT !.store = defineMetadata(typed, OPENAPI_MODEL_PROP,
                                                    member.ann.args, ProtoKeySlot(name))]
          [] OTHER ->
                [store |-> CASE member.ann.dec = "Prop" ->
                                    Prop(typed, member.ann.args, member.ann.opts, target)
                             [] member.ann.dec = "PropRaw" ->
                                    PropRaw(typed, member.ann.schema, member.ann.opts,
                                            target)
                             [] member.ann.dec = "ArrayProp" ->
                                    ArrayProp(typed, member.ann.args, target),
                 ownNames |-> IF target.kind = "property"
                              THEN defineProperty(rt.ownNames, name) ELSE rt.ownNames]

RECURSIVE DecorateMembers(_, _, _)
DecorateMembers(rt, members, i) ==
    IF i > Len(members) THEN rt
    ELSE DecorateMembers(DecorateMember(rt, members[i], i), members, i + 1)

DecorateClass(store, d) ==
    CASE d = "Model"    -> Model(store, [title |-> "C"], [kind |-> "class", id |-> "C"])
      [] d = "ModelRaw" -> ModelRaw(store, [type |-> "string"], [kind |-> "class", id |-> "C"])
      [] OTHER          -> store

\* The class definition is evaluated: member decorators, then the class's.
DefineClass ==
    /\ derived.phase = "declared"
    /\ LET rt == DecorateMembers([store |-> metadata,
                                  ownNames |-> MethodNames(decorators.members, 1)],
                                 decorators.members, 1)
       IN  /\ metadata' = DecorateClass(rt.store, decorators.class)
           /\ derived' = [phase |-> "defined", ownNames |-> rt.ownNames]
    /\ UNCHANGED <<builderVars, interceptVars, decorators, scan, modBase, ctlBase,
                   opInfo, scanLog>>

BuildSchema ==
    /\ derived.phase = "defined"
    /\ derived' = [phase |-> "built", ownNames |-> derived.ownNames,
                   result |-> buildSchemaFromPrototype(metadata, derived.ownNames, "C")]
    /\ UNCHANGED <<builderVars, interceptVars, scanVars>>

ModelInit ==
    /\ IdleInterceptor
    /\ models = EmptyMap
    /\ paths = EmptyMap
    /\ schemas = EmptyMap
    /\ stack = <<>>
    /\ call = NoCall
    /\ built = NoBuilds
    /\ decorators \in ClassDeclarations
    /\ metadata = EmptyMap
    /\ scan = [phase |-> "off"]
    /\ modBase = EmptyMap
    /\ ctlBase = EmptyMap
    /\ opInfo = EmptyMap
    /\ scanLog = EmptyMap
    /\ derived = [phase |-> "declared"]

ModelNext == DefineClass \/ BuildSchema

ModelSpec == ModelInit /\ [][ModelNext]_vars

\* The members of the declared class that carry a raw-override, scalar or
\* array property annotation.
AnnotatedMembers ==
    {MemberNames[i] : i \in {k \in DOMAIN decorators.members :
                                decorators.members[k].ann.dec # "none"}}

BuiltFromBase ==
    /\ derived.phase = "built"
    /\ decorators.class = "Model"
    /\ derived.result.err = "none"

BuiltSomeProperty == BuiltFromBase /\ derived.result.schema.properties # <<>>

\* C12: the schema built for a class with base-info metadata and no raw
\* override has type "object" and its properties has exactly one key for
\* each own-declared member carrying a raw-override, scalar or array
\* property annotation, and no key for any other member.
C12_PropertiesAreAnnotatedMembers ==
    BuiltFromBase =>
        /\ derived.result.schema.type = "object"
        /\ ObjKeys(derived.result.schema.properties) = AnnotatedMembers
        /\ \A i, j \in DOMAIN derived.result.schema.properties :
                derived.result.schema.properties[i][1] =
                    derived.result.schema.properties[j][1] => i = j


-----------------------------------------------------------------------------
\* inferSchema called on its own, up to MaxInfers times on one modelsToParse
\* list, with every built-in it distinguishes and the model constructors.

MaxInfers == 3

BuiltIns == {"Number", "String", "Date", "Boolean", "Array", "Promise", "Object"}

InferTypes == BuiltIns \cup Ctors

InferCall(type) ==
    /\ derived.phase = "infer"
    /\ derived.calls < MaxInfers
    /\ LET r == inferSchema(type)
       IN  derived' = [phase   |-> "infer",
                       calls   |-> derived.calls + 1,
                       pending |-> derived.pending \o r.found,
                       last    |-> [type |-> type, before |-> derived.pending,
                                    schema |-> r.schema, err |-> r.err]]
    /\ UNCHANGED <<builderVars, interceptVars, scanVars>>

InferInit ==
    /\ IdleScanner /\ IdleInterceptor
    /\ models = EmptyMap
    /\ paths = EmptyMap
    /\ schemas = EmptyMap
    /\ stack = <<>>
    /\ call = NoCall
    /\ built = NoBuilds
    /\ derived = [phase |-> "infer", calls |-> 0, pending |-> <<>>]

InferNext == \E type \in InferTypes : InferCall(type)

InferSpec == InferInit /\ [][InferNext]_vars

\* The schema the primitive table gives a built-in.
TableSchema(type) ==
    CASE type = "Number"  -> [type |-> "number"]
      [] type = "String"  -> [type |-> "string"]
      [] type = "Date"    -> [type |-> "string", format |-> "date"]
      [] type = "Boolean" -> [type |-> "boolean"]

Inferred == derived.calls > 0

\* C13: inferSchema maps Number, String, Date and Boolean to their table
\* schema and leaves pending unchanged; Array, Promise and Object fail with
\* an Inference error and leave pending unchanged; every other constructor
\* is appended to pending and the result is the reference
\* #/components/schemas/<Name>.
C13_InferSchemaTable ==
    Inferred =>
        LET last == derived.last
        IN  /\ last.type \in {"Number", "String", "Date", "Boolean"} =>
                    /\ last.err = "none"
                    /\ last.schema = TableSchema(last.type)
                    /\ derived.pending = last.before
            /\ last.type \in {"Array", "Promise", "Object"} =>
                    /\ last.err = "InferenceError"
                    /\ derived.pending = last.before
            /\ last.type \notin BuiltIns =>
                    /\ last.err = "none"
                    /\ derived.pending = Append(last.before, last.type)
                    /\ DOMAIN last.schema = {"ref"}
                    /\ last.schema.ref = "#/components/schemas/" \o last.type

\* Array is refused while a model found by an earlier call is pending.
C13_Witness ==
    /\ Inferred
    /\ derived.last.type = "Array"
    /\ derived.last.err = "InferenceError"
    /\ derived.pending = <<"A">>


-----------------------------------------------------------------------------
\* parseSchemaLike called on its own with schema objects whose allOf, anyOf,
\* oneOf or items hold SchemaLikes.

MaxSubs == 2

SimpleSchemaLikes ==
    {Ctor("A"), Ctor("String"), ArrayOf(Ctor("B")),
     [ref |-> "#/components/schemas/R"], [type |-> "string"],
     [oneOf |-> <<Ctor("B")>>]}

SchemaLikes ==
    SimpleSchemaLikes
    \cup {[allOf |-> subs] : subs \in SeqsUpTo(SimpleSchemaLikes, MaxSubs) \ {<<>>}}
    \cup {[anyOf |-> subs] : subs \in SeqsUpTo(SimpleSchemaLikes, MaxSubs) \ {<<>>}}
    \cup {[oneOf |-> subs] : subs \in SeqsUpTo(SimpleSchemaLikes, MaxSubs) \ {<<>>}}
    \cup {[type |-> "array", items |-> c] : c \in SimpleSchemaLikes}

ParseCall ==
    /\ derived.phase = "parse"
    /\ LET r == parseSchemaLike(derived.input)
       IN  derived' = [phase |-> "parsed", input |-> derived.input,
                       schema |-> r.schema, pending |-> r.found, err |-> r.err]
    /\ UNCHANGED <<builderVars, interceptVars, scanVars>>

ParseInit ==
    /\ IdleScanner /\ IdleInterceptor
    /\ models = EmptyMap
    /\ paths = EmptyMap
    /\ schemas = EmptyMap
    /\ stack = <<>>
    /\ call = NoCall
    /\ built = NoBuilds
    /\ \E c \in SchemaLikes : derived = [phase |-> "parse", input |-> c]

ParseNext == ParseCall

ParseSpec == ParseInit /\ [][ParseNext]_vars

\* No constructor and no 1-element array is left in the schema or in its
\* allOf, anyOf, oneOf or items, at any depth.
RECURSIVE Resolved(_)
Resolved(s) ==
    /\ ~IsCtor(s)
    /\ ~IsArray(s)
    /\ \A k \in DOMAIN s \cap {"allOf", "anyOf", "oneOf"} :
            \A i \in DOMAIN s[k] : Resolved(s[k][i])
    /\ "items" \in DOMAIN s => Resolved(s.items)

\* The model constructors a SchemaLike holds, itself included.
RECURSIVE ModelsIn(_)
ModelsIn(c) ==
    IF IsCtor(c) THEN (IF c.ctor \in BuiltIns THEN {} ELSE {c.ctor})
    ELSE IF IsArray(c) THEN ModelsIn(c.array)
    ELSE UNION {UNION {ModelsIn(c[k][i]) : i \in DOMAIN c[k]} :
                    k \in DOMAIN c \cap {"allOf", "anyOf", "oneOf"}}
         \cup (IF "items" \in DOMAIN c THEN ModelsIn(c.items) ELSE {})

Parsed == derived.phase = "parsed" /\ derived.err = "none"

\* C14: after parseSchemaLike the output holds no constructor and no
\* 1-element array in allOf, anyOf, oneOf or items, and every model
\* constructor the input held in those positions is in the pending list.
C14_NestedSchemaLikesResolved ==
    Parsed =>
        /\ Resolved(derived.schema)
        /\ Range(derived.pending) = ModelsIn(derived.input)

ItemsFree(c) ==
    /\ "items" \notin DOMAIN c
    /\ \A k \in DOMAIN c \cap {"allOf", "anyOf", "oneOf"} :
            \A i \in DOMAIN c[k] : "items" \notin DOMAIN c[k][i]

\* The same without items: allOf, anyOf and oneOf are resolved.
CombinatorsResolved ==
    (Parsed /\ ItemsFree(derived.input)) => C14_NestedSchemaLikesResolved


-----------------------------------------------------------------------------
\* Handlers with a cookie parameter.  None of Path, Query and Header records
\* in: 'cookie'; a handler has one either through Parameter, which writes
\* OPENAPI_PARAMETER alone, or through an argument decorator of the
\* application that also writes OPENAPI_PARAMETER_BY_INDEX, the one key the
\* interceptor reads its parameters from (line 210).

CookieParameter == [name |-> "sid", in |-> "cookie", schema |-> StringSchema]

CookieDeclarations ==
    {(IF withBody
      THEN <<[dec |-> "Body", content |-> <<<<"application/json", NumberSchema>>>>,
              parameterIndex |-> 0]>>
      ELSE <<>>) \o ps :
        withBody \in BOOLEAN,
        ps \in LET n == [dec |-> "Query", name |-> "n", schema |-> NumberSchema,
                         parameterIndex |-> 1]
                   byIndex == [dec |-> "Cookie", name |-> "sid", schema |-> StringSchema,
                               parameterIndex |-> 2]
                   documented == [dec |-> "Parameter", p |-> CookieParameter]
               IN  {<<byIndex>>, <<n, byIndex>>, <<byIndex, n>>,
                    <<documented>>, <<n, documented>>}}

CookieInit ==
    /\ models = EmptyMap
    /\ paths = EmptyMap
    /\ schemas = EmptyMap
    /\ stack = <<>>
    /\ call = NoCall
    /\ built = NoBuilds
    /\ \E d \in CookieDeclarations :
            decorators = [h \in Handlers |->
                            IF h = "H1" THEN d
                            ELSE <<[dec |-> "Query", name |-> "n",
                                    schema |-> NumberSchema, parameterIndex |-> 0]>>]
    /\ metadata = ApplyArguments(
                      ApplyArguments(EmptyMap, decorators["H1"], Target("H1")),
                      decorators["H2"], Target("H2"))
    /\ scan = [phase |-> "off"]
    /\ modBase = EmptyMap
    /\ ctlBase = EmptyMap
    /\ opInfo = EmptyMap
    /\ scanLog = EmptyMap
    /\ validationCache = EmptyMap
    /\ builds = [h \in Handlers |-> 0]
    /\ requests = 0
    /\ exchange = EmptyMap
    /\ flights = <<>>
    /\ derived = EmptyMap

CookieSpec == CookieInit /\ [][InterceptNext]_vars

\* The handler of the exchange has a cookie parameter among the parameters
\* its argument decorators recorded by index; or has one at all.
CookieByIndex ==
    \E i \in DOMAIN decorators[exchange.handler] :
        decorators[exchange.handler][i].dec = "Cookie"

DeclaresCookie ==
    \E i \in DOMAIN decorators[exchange.handler] :
        decorators[exchange.handler][i].dec \in {"Cookie", "Parameter"}

-----------------------------------------------------------------------------
\* checkParentMetadata and checkEndpointMetadata applied to one op-info
\* record with one metadata record, up to MaxApplications times in a row.

MaxApplications == 2

\* The metadata records: every key is absent or has the one value.
MetadataFields ==
    {<<OPENAPI_IGNORE, TRUE>>,
     <<OPENAPI_TAGS, <<"t">>>>,
     <<PATH, <<"k">>>>,
     <<OPENAPI_DEPRECATED, TRUE>>,
     <<OPENAPI_SECURITY_SCHEMES, <<<<"s", Scopes(<<"read">>)>>>>>>,
     <<OPENAPI_PARAMETER, <<<<"n", [name |-> "n", in |-> "query", schema |-> StringSchema]>>>>>>,
     <<OPENAPI_INTERNAL_MODELS_TO_PARSE, <<"A">>>>,
     <<OPENAPI_OPERATION_INFO, [deprecated |-> "undefined", responses |-> EmptyMap]>>}

MetadataRecords ==
    {[k \in {f[1] : f \in fs} |-> (CHOOSE f \in fs : f[1] = k)[2]] :
        fs \in SUBSET MetadataFields}

\* The op-info records the metadata is applied to: a fresh one, and one that
\* outer scopes have written to.
BaseOpInfos ==
    {FreshBaseOpInfo,
     [ignore |-> FALSE, tags |-> <<"s">>, pathChunks |-> <<<<"j">>>>, deprecated |-> "true",
      parameters |-> <<<<"n", [name |-> "n", in |-> "header", schema |-> NumberSchema]>>>>,
      modelsToParse |-> <<"B">>, securitySchemes |-> <<<<"s", Scopes(<<>>)>>>>]}

ApplyParent ==
    /\ derived.phase = "apply"
    /\ derived.scope = "parent"
    /\ Len(derived.history) <= MaxApplications
    /\ derived' = [derived EXCEPT !.history =
                        Append(@, checkParentMetadata(derived.m, @[Len(@)]))]
    /\ UNCHANGED <<builderVars, interceptVars, scanVars>>

ApplyEndpoint ==
    /\ derived.phase = "apply"
    /\ derived.scope = "endpoint"
    /\ Len(derived.history) <= MaxApplications
    /\ derived' = [derived EXCEPT !.history =
                        Append(@, checkEndpointMetadata(derived.m, @[Len(@)]))]
    /\ UNCHANGED <<builderVars, interceptVars, scanVars>>

ApplyInit ==
    /\ IdleScanner /\ IdleInterceptor
    /\ models = EmptyMap
    /\ paths = EmptyMap
    /\ schemas = EmptyMap
    /\ stack = <<>>
    /\ call = NoCall
    /\ built = NoBuilds
    /\ \E m \in MetadataRecords, base \in BaseOpInfos, scope \in {"parent", "endpoint"} :
            derived = [phase |-> "apply", scope |-> scope, m |-> m,
                       history |-> <<IF scope = "parent" THEN base
                                     ELSE NewOpInfo(base, "e", 0)>>]

ApplyNext == ApplyParent \/ ApplyEndpoint

ApplySpec == ApplyInit /\ [][ApplyNext]_vars

AppliedTwice == Len(derived.history) >= 3

Once == derived.history[2]
Twice == derived.history[3]

\* What one application appends to a list field: the metadata's value, when
\* the record is not ignored and the metadata has the key.
Appended(k) ==
    IF ~Once.ignore /\ k \in DOMAIN derived.m THEN derived.m[k] ELSE <<>>

\* C16, as amended: a second application of the same metadata record leaves
\* ignore, parameters, security schemes and deprecated as the first left
\* them; it appends the record's tags, its path chunk and its models once
\* more, so tags and models-to-parse are equal as sets only and the path
\* chunks differ whenever the record has a path; a record that sets ignore
\* changes nothing the second time.
C16_SecondApplication ==
    AppliedTwice =>
        /\ Twice.ignore = Once.ignore
        /\ Twice.parameters = Once.parameters
        /\ Twice.securitySchemes = Once.securitySchemes
        /\ Twice.deprecated = Once.deprecated
        /\ Twice.tags = Once.tags \o Appended(OPENAPI_TAGS)
        /\ Twice.modelsToParse = Once.modelsToParse \o Appended(OPENAPI_INTERNAL_MODELS_TO_PARSE)
        /\ Twice.pathChunks =
                Once.pathChunks \o (IF Appended(PATH) = <<>> THEN <<>> ELSE <<derived.m[PATH]>>)
        /\ Range(Twice.tags) = Range(Once.tags)
        /\ Range(Twice.modelsToParse) = Range(Once.modelsToParse)
        /\ Once.ignore => Twice = Once

\* The second application of an endpoint's metadata has doubled the tag and
\* the path chunk and left the parameter of the name n as the first did.
C16_Witness ==
    /\ AppliedTwice
    /\ derived.scope = "endpoint"
    /\ Twice.tags = <<"s", "t", "t">>
    /\ Twice.pathChunks = <<<<"j">>, <<"k">>, <<"k">>>>
    /\ Len(Twice.parameters) = 1
    /\ Twice.parameters[1][2].in = "query"

\* C16 as stated: applying the record twice leaves the op-info equal to
\* applying it once, models-to-parse compared up to duplicates.
C16_Idempotent ==
    AppliedTwice =>
        /\ Twice.tags = Once.tags
        /\ Twice.pathChunks = Once.pathChunks
        /\ Twice.parameters = Once.parameters
        /\ Twice.securitySchemes = Once.securitySchemes
        /\ Twice.deprecated = Once.deprecated
        /\ Twice.ignore = Once.ignore
        /\ Range(Twice.modelsToParse) = Range(Once.modelsToParse)


-----------------------------------------------------------------------------
\* The scan of applications whose module, controllers and handlers carry
\* Deprecated and parameters: the application of ScanSpec with other
\* decorators.  e1 is mapped by Nest's own decorator and e2 by OAS.Post with
\* an info argument; the key "e1 arguments" holds the argument decorators of
\* e1, which run before its method decorators.

ScopeParameter(name, scope) ==
    [name |-> name, in |-> "query", description |-> scope, schema |-> StringSchema]

DeprecatedChoices == {<<>>, <<[dec |-> "Deprecated", v |-> TRUE]>>}

ParameterChoices(names, scope) ==
    {[i \in DOMAIN ns |-> [dec |-> "Parameter", p |-> ScopeParameter(ns[i], scope)]] :
        ns \in {q \in SeqsUpTo(names, 2) : \A i, j \in DOMAIN q : i # j => q[i] # q[j]}}

\* OPENAPI_PARAMETER on the handler function itself, which is what the
\* endpoint scope reads, is written by SetMetadata alone.
EndpointParameterChoices ==
    {<<>>,
     <<[dec |-> "SetMetadata", k |-> OPENAPI_PARAMETER,
        v |-> <<<<"n", ScopeParameter("n", "endpoint")>>>>]>>}

ArgumentChoices ==
    {<<>>,
     <<[dec |-> "Query", name |-> "n", schema |-> NumberSchema, parameterIndex |-> 0]>>}

\* The info argument of e2: whether it sets deprecated, and its response
\* model (U has no Model decorator).
InfoChoices ==
    {[deprecated |-> "undefined", content |-> "A"], [deprecated |-> "true", content |-> "A"],
     [deprecated |-> "undefined", content |-> "U"]}

CascadeProgram(onM, onK1, onE1, args, info) ==
    [id \in {Targets[i] : i \in DOMAIN Targets} \cup {"e1 arguments"} |->
        CASE id = "M"  -> onM
          [] id = "K1" -> onK1 \o <<[dec |-> "Controller", prefix |-> <<"k">>]>>
          [] id = "K2" -> <<[dec |-> "Controller", prefix |-> <<"j">>]>>
          [] id = "e1" -> onE1 \o <<[dec |-> "RequestMapping", method |-> 0,
                                     route |-> <<"/">>]>>
          [] id = "e2" -> <<[dec |-> "OAS.Method", method |-> 1, route |-> <<"/">>,
                             info |-> info]>>
          [] id = "e3" -> <<[dec |-> "RequestMapping", method |-> 0, route |-> <<"/">>]>>
          [] id = "e1 arguments" -> args
          [] OTHER     -> <<>>]

CascadePrograms ==
    {CascadeProgram(dm \o pm, dk \o pk, pe \o pa, args, info) :
        dm \in DeprecatedChoices, pm \in ParameterChoices({"n", "q"}, "module"),
        dk \in DeprecatedChoices, pk \in ParameterChoices({"n"}, "controller"),
        pe \in EndpointParameterChoices, pa \in ParameterChoices({"n"}, "method"),
        args \in ArgumentChoices, info \in InfoChoices}

CascadeInit ==
    /\ IdleInterceptor
    /\ derived = EmptyMap
    /\ models = ModelGraph(<<"B", "A">>, <<"A", "String">>)
    /\ paths = EmptyMap
    /\ schemas = EmptyMap
    /\ stack = <<>>
    /\ call = NoCall
    /\ built = NoBuilds
    /\ decorators \in CascadePrograms
    /\ metadata = Decorate(ApplyArguments(EmptyMap, decorators["e1 arguments"], Target("e1")),
                           decorators, 1)
    /\ scan = [phase |-> "module", mi |-> 1, ci |-> 0, ei |-> 0, xi |-> 0]
    /\ modBase = FreshBaseOpInfo
    /\ ctlBase = FreshBaseOpInfo
    /\ opInfo = EmptyMap
    /\ scanLog = EmptyMap

CascadeSpec == CascadeInit /\ [][ScanNext]_vars

UnderDeprecated(e) ==
    Carries(ControllerOf(e), "Deprecated") \/ Carries(ModuleOf(e), "Deprecated")

\* C17: the operation registered for an endpoint whose module or controller
\* carries Deprecated has deprecated = true, whatever the endpoint itself
\* carries.
C17_DeprecatedCascades ==
    \A e \in Endpoints : \A pm \in OperationsOf(e) :
        UnderDeprecated(e) => paths[pm[1]][pm[2]].deprecated = "true"


\* The parameters each scope of an endpoint declares, by the decorators of
\* the application: module, controller, endpoint, argument.
RECURSIVE ParametersOn(_)
ParametersOn(ds) ==
    IF ds = <<>> THEN <<>>
    ELSE (CASE Head(ds).dec = "Parameter" -> <<Head(ds).p>>
            [] Head(ds).dec = "SetMetadata" /\ Head(ds).k = OPENAPI_PARAMETER ->
                    [i \in DOMAIN Head(ds).v |-> Head(ds).v[i][2]]
            [] Head(ds).dec = "Query" ->
                    <<[name |-> Head(ds).name, in |-> "query", schema |-> Head(ds).schema]>>
            [] OTHER -> <<>>)
         \o ParametersOn(Tail(ds))

ScopeDeclares(e, scope) ==
    Range(CASE scope = 1 -> ParametersOn(decorators[ModuleOf(e)])
            [] scope = 2 -> ParametersOn(decorators[ControllerOf(e)])
            [] scope = 3 -> ParametersOn(SelectSeq(decorators[e],
                                            LAMBDA d : d.dec = "SetMetadata"))
            [] scope = 4 -> ParametersOn(SelectSeq(decorators[e],
                                            LAMBDA d : d.dec = "Parameter"))
                            \o (IF e = "e1" THEN ParametersOn(decorators["e1 arguments"])
                                ELSE <<>>))

DeclaredNames(e) == {p.name : p \in UNION {ScopeDeclares(e, scope) : scope \in 1..4}}

LastScope(e, name) ==
    CHOOSE scope \in 1..4 :
        /\ \E p \in ScopeDeclares(e, scope) : p.name = name
        /\ \A later \in (scope + 1)..4 : \A p \in ScopeDeclares(e, later) : p.name # name

-----------------------------------------------------------------------------
\* The models a registered operation refers to.

\* The constructors whose reference a response of the operation holds.
RefsOf(operation) ==
    {c \in Ctors :
        \E code \in DOMAIN operation.responses :
            operation.responses[code].content = schemaReference(c)}

RegisteredOperations ==
    UNION {{paths[p][m] : m \in DOMAIN paths[p]} : p \in DOMAIN paths}

\* The step of scanEndpoint that adds the operation to paths.
Registers == paths' # paths

\* C19: when scanEndpoint adds an operation to paths, every model of the
\* endpoint's aggregated modelsToParse and every model reachable from them
\* through the models' own pending lists has its entry in
\* components.schemas; and every reference in a registered operation names
\* a component schema that exists, together with all it reaches.
C19_ModelsEnsuredBeforeRegistered ==
    /\ [][Registers =>
            \A model \in Range(opInfo.info.modelsToParse) :
                Reach(model) \subseteq DOMAIN schemas]_vars
    /\ [](\A operation \in RegisteredOperations :
            \A c \in RefsOf(operation) : Reach(c) \subseteq DOMAIN schemas)

\* e2 is registered with a reference to A, and A and the B it reaches are
\* component schemas.
C19_Witness ==
    /\ scan.phase = "done"
    /\ \E operation \in RegisteredOperations :
            /\ operation.operationId = "e2"
            /\ RefsOf(operation) = {"A"}
    /\ Reach("A") = {"A", "B"}
    /\ {"A", "B"} \subseteq DOMAIN schemas


-----------------------------------------------------------------------------
\* convertPathForOpenAPI called on its own with every list of up to
\* MaxChunks path chunks of up to MaxChunkLen characters.

MaxChunks == 2
MaxChunkLen == 3

ChunkCharacters == {"/", ":", "a", "_"}

PathChunkLists == SeqsUpTo(SeqsUpTo(ChunkCharacters, MaxChunkLen), MaxChunks)

ConvertPath ==
    /\ derived.phase = "path"
    /\ derived' = [phase |-> "converted", pathChunks |-> derived.pathChunks,
                   path |-> convertPathForOpenAPI(derived.pathChunks)]
    /\ UNCHANGED <<builderVars, interceptVars, scanVars>>

PathInit ==
    /\ IdleScanner /\ IdleInterceptor
    /\ models = EmptyMap
    /\ paths = EmptyMap
    /\ schemas = EmptyMap
    /\ stack = <<>>
    /\ call = NoCall
    /\ built = NoBuilds
    /\ \E pathChunks \in PathChunkLists :
            derived = [phase |-> "path", pathChunks |-> pathChunks]

PathNext == ConvertPath

PathSpec == PathInit /\ [][PathNext]_vars

\* The characters of a route parameter's name: letters, digits and "_".
NameCharacters == AlphaNum \cup {"_"}

RECURSIVE NameLength(_, _)
NameLength(str, i) ==
    IF i <= Len(str) /\ str[i] \in NameCharacters THEN 1 + NameLength(str, i + 1) ELSE 0

\* str with every ":name" written as "{name}", from position i on.
RECURSIVE InBraces(_, _)
InBraces(str, i) ==
    IF i > Len(str) THEN <<>>
    ELSE LET n == NameLength(str, i + 1)
         IN  IF str[i] = ":" /\ n > 0
             THEN <<"{">> \o SubSeq(str, i + 1, i + n) \o <<"}">> \o InBraces(str, i + n + 1)
             ELSE <<str[i]>> \o InBraces(str, i + 1)

\* The chunks joined with "/", without the slashes at either end.
RECURSIVE Joined(_)
Joined(chunks) ==
    IF chunks = <<>> THEN <<>>
    ELSE IF Len(chunks) = 1 THEN chunks[1]
    ELSE chunks[1] \o <<"/">> \o Joined(Tail(chunks))

Inner(str) ==
    LET keep == {i \in DOMAIN str : str[i] # "/"}
    IN  IF keep = {} THEN <<>>
        ELSE SubSeq(str, CHOOSE i \in keep : \A j \in keep : i <= j,
                         CHOOSE i \in keep : \A j \in keep : i >= j)

Converted == derived.phase = "converted"

\* C20: the converted path is one "/" followed by the chunks joined with
\* "/", trimmed of leading and trailing slashes, in which every :paramName
\* is written {paramName}: it starts with exactly one "/", does not end
\* with one unless it is "/", and no colon followed by a parameter name is
\* left in it.
C20_PathConversion ==
    Converted =>
        LET path == derived.path
        IN  /\ path = <<"/">> \o InBraces(Inner(Joined(derived.pathChunks)), 1)
            /\ path[1] = "/"
            /\ Len(path) > 1 => (path[2] # "/" /\ path[Len(path)] # "/")
            /\ \A i \in 1..(Len(path) - 1) :
                    ~(path[i] = ":" /\ path[i + 1] \in NameCharacters)

NoUnderscore ==
    \A i \in DOMAIN derived.pathChunks :
        \A j \in DOMAIN derived.pathChunks[i] : derived.pathChunks[i][j] # "_"

\* The same for parameter names of letters and digits.
AlphanumericNamesConverted == NoUnderscore => C20_PathConversion


-----------------------------------------------------------------------------
\* The names of the members declared with PropRaw, Prop or ArrayProp and not
\* marked required: false, in declaration order.
RECURSIVE RequiredByDefault(_, _)
RequiredByDefault(members, i) ==
    IF i > Len(members) THEN <<>>
    ELSE (IF /\ members[i].ann.dec \in {"PropRaw", "Prop", "ArrayProp"}
             /\ ~("opts" \in DOMAIN members[i].ann /\ ~members[i].ann.opts.required)
          THEN <<MemberNames[i]>> ELSE <<>>)
            \o RequiredByDefault(members, i + 1)

\* C21: the built schema's required list is exactly the names of the
\* declared properties (raw, scalar or array) that were not marked
\* required: false, in declaration order, and the schema has no required
\* list when there are none.
C21_RequiredByDefault ==
    BuiltFromBase =>
        LET expected == RequiredByDefault(decorators.members, 1)
            schema   == derived.result.schema
        IN  IF expected = <<>> THEN "required" \notin DOMAIN schema
            ELSE "required" \in DOMAIN schema /\ schema.required = expected

\* The same with no member declared as a required property: the list is absent.
NothingRequired ==
    (BuiltFromBase /\ RequiredByDefault(decorators.members, 1) = <<>>)
        => "required" \notin DOMAIN derived.result.schema


-----------------------------------------------------------------------------
\* buildSchemaFromAnnotatedProp called on its own for one scalar property:
\* every set of explicit args of ScalarPropArgs below, every design type,
\* and the required flag either way.

ScalarArgFields == {"nullable", "oneOf", "type", "format", "default"}

ScalarArgValue(field) ==
    CASE field = "nullable" -> TRUE
      [] field = "oneOf"    -> <<[type |-> "string"]>>
      [] field = "type"     -> "string"
      [] field = "format"   -> "date"
      [] field = "default"  -> "x"

ScalarArgs == {[field \in fields |-> ScalarArgValue(field)] : fields \in SUBSET ScalarArgFields}

PropDesignTypes == {"String", "Number", "A", "B"}

ScalarPropMetadata ==
    {(DESIGN_TYPE :> type) @@ (OPENAPI_MODEL_PROP :> args)
        @@ (OPENAPI_MODEL_PROP_REQUIRED :> required) :
        type \in PropDesignTypes, args \in ScalarArgs, required \in BOOLEAN}

BuildProp ==
    /\ derived.phase = "prop"
    /\ derived' = [phase |-> "propBuilt", propMetadata |-> derived.propMetadata,
                   schema |-> buildSchemaFromAnnotatedProp(
                                [err |-> "none", properties |-> <<>>, required |-> <<>>,
                                 modelsToParse |-> <<>>],
                                "p", derived.propMetadata)]
    /\ UNCHANGED <<builderVars, interceptVars, scanVars>>

PropInit ==
    /\ IdleScanner /\ IdleInterceptor
    /\ models = EmptyMap
    /\ paths = EmptyMap
    /\ schemas = EmptyMap
    /\ stack = <<>>
    /\ call = NoCall
    /\ built = NoBuilds
    /\ \E propMetadata \in ScalarPropMetadata :
            derived = [phase |-> "prop", propMetadata |-> propMetadata]

PropNext == BuildProp

PropSpec == PropInit /\ [][PropNext]_vars

ExplicitArgs == derived.propMetadata[OPENAPI_MODEL_PROP]

\* The property was built and its schema was inferred to a model reference.
InferredToReference ==
    /\ derived.phase = "propBuilt"
    /\ "type" \notin DOMAIN ExplicitArgs /\ "format" \notin DOMAIN ExplicitArgs
    /\ derived.propMetadata[DESIGN_TYPE] \in {"A", "B"}

PropSchema == ObjGet(derived.schema.properties, "p")

Reference == schemaReference(derived.propMetadata[DESIGN_TYPE])

\* C22: a scalar property inferred to a model reference, given explicit
\* args with at least one field, has no $ref key, has the reference as the
\* single element of oneOf and keeps each explicit field as it was given;
\* given empty args it is the bare reference object.
C22_ReferenceRewrapped ==
    InferredToReference =>
        IF DOMAIN ExplicitArgs = {} THEN PropSchema = Reference
        ELSE /\ "ref" \notin DOMAIN PropSchema
             /\ "oneOf" \in DOMAIN PropSchema
             /\ PropSchema.oneOf = <<Reference>>
             /\ \A field \in DOMAIN ExplicitArgs :
                    field \in DOMAIN PropSchema /\ PropSchema[field] = ExplicitArgs[field]

\* The same for explicit args that do not themselves give oneOf.
RewrappedBesideOtherFields ==
    (InferredToReference /\ "oneOf" \notin DOMAIN ExplicitArgs) => C22_ReferenceRewrapped


-----------------------------------------------------------------------------
\* The latest builder call asked for the schema of a constructor with
\* neither a raw-override entry nor a base-info entry.
BuiltUnmarked ==
    /\ call.kind = "ensure"
    /\ ~models[call.t].raw /\ ~models[call.t].base

\* C23: building the schema of a constructor that has neither a
\* raw-override entry nor a base-info entry fails with a DefinitionError,
\* not with an error of another kind, and registers nothing for that
\* constructor.
C23_UnmarkedIsDefinitionError ==
    BuiltUnmarked => (call.err = "DefinitionError" /\ call.t \notin DOMAIN schemas)

\* The build fails and registers nothing, whatever the kind of the error.
UnmarkedFailsUnregistered ==
    BuiltUnmarked => (call.err # "none" /\ call.done /\ call.t \notin DOMAIN schemas)


-----------------------------------------------------------------------------
\* The error strings of the 400 response, lines 164-171, with the data path
\* as the characters ajv reports for the wrapped value { __$wrap__: inValue }:
\* "" for the missing wrapper property, ".__$wrap__" for the value itself,
\* and below it ".f" for a property, "[0]" for an element and "['a-b']" for
\* a property that is no identifier.

MaxSegments == 2

WrapperPath == <<".", "_", "_", "$", "w", "r", "a", "p", "_", "_">>

PathSegments ==
    {<<".", "f">>, <<".", "g">>, <<"[", "0", "]">>, <<"[", "'", "a", "-", "b", "'", "]">>}

RECURSIVE Flatten(_)
Flatten(seqs) == IF seqs = <<>> THEN <<>> ELSE Head(seqs) \o Flatten(Tail(seqs))

DataPaths ==
    {<<>>} \cup {WrapperPath \o Flatten(segments) : segments \in SeqsUpTo(PathSegments, MaxSegments)}

ErrorLabels == {<<"request body">>, <<"parameter 'n'">>}

ErrorMessages == {<<"should be number">>, <<"should be string">>,
                  <<"should have required property 'f'">>}

\* String.prototype.replace with a string pattern: the first occurrence only.
replace(str, pattern, replacement) ==
    LET at == {i \in 1..(Len(str) - Len(pattern) + 1) :
                    SubSeq(str, i, i + Len(pattern) - 1) = pattern}
    IN  IF at = {} THEN str
        ELSE LET i == CHOOSE i \in at : \A j \in at : i <= j
             IN  SubSeq(str, 1, i - 1) \o replacement
                    \o SubSeq(str, i + Len(pattern), Len(str))

\* `${e[0]}: ${e[1].dataPath.replace(`.${INTERNAL_WRAPPER}.`, '')} ${e[1].message}`
errorItem(e) ==
    e[1] \o <<": ">> \o replace(e[2].dataPath, WrapperPath \o <<".">>, <<>>)
         \o <<" ">> \o e[2].message

ReportError ==
    /\ derived.phase = "error"
    /\ derived' = [phase |-> "reported", e |-> derived.e, item |-> errorItem(derived.e)]
    /\ UNCHANGED <<builderVars, interceptVars, scanVars>>

ReportInit ==
    /\ IdleScanner /\ IdleInterceptor
    /\ models = EmptyMap
    /\ paths = EmptyMap
    /\ schemas = EmptyMap
    /\ stack = <<>>
    /\ call = NoCall
    /\ built = NoBuilds
    /\ \E label \in ErrorLabels, dataPath \in DataPaths, text \in ErrorMessages :
            derived = [phase |-> "error",
                       e |-> <<label, [dataPath |-> dataPath, message |-> text]>>]

ReportNext == ReportError

ReportSpec == ReportInit /\ [][ReportNext]_vars

Reported == derived.phase = "reported"

\* The item is "<label>: <path> <message>"; this is its <path>.
ReportedPath ==
    SubSeq(derived.item, Len(derived.e[1]) + 2,
           Len(derived.item) - Len(derived.e[2].message) - 1)

WrapperName == Tail(WrapperPath)

Contains(str, part) ==
    \E i \in 1..(Len(str) - Len(part) + 1) : SubSeq(str, i, i + Len(part) - 1) = part

\* C25: an item of the error list is "<location label>: <field path>
\* <message>" and the wrapper property's name does not appear in the field
\* path, for an error on the top-level value as for one on a nested field.
C25_WrapperStripped ==
    Reported =>
        /\ derived.item = derived.e[1] \o <<": ">> \o ReportedPath \o <<" ">>
                            \o derived.e[2].message
        /\ ~Contains(ReportedPath, WrapperName)

\* The error is on a field reached from the value by property access.
OnNamedField ==
    /\ Len(derived.e[2].dataPath) > Len(WrapperPath)
    /\ derived.e[2].dataPath[Len(WrapperPath) + 1] = "."

\* The same for the errors on a named field of the value.
NamedFieldStripped == OnNamedField => C25_WrapperStripped


-----------------------------------------------------------------------------
\* wrapSpecifiedSchema, lines 36-50, called on its own with every schema of
\* up to MaxNesting levels below which a reference can sit.

MaxNesting == 2

RECURSIVE NestedSchemas(_)
NestedSchemas(depth) ==
    LET leaves == {[type |-> "string"], schemaReference("A"), schemaReference("B")}
    IN  IF depth = 0 THEN leaves
        ELSE LET below == NestedSchemas(depth - 1)
             IN  leaves
                    \cup {[type |-> "array", items |-> s] : s \in below}
                    \cup {[type |-> "object", properties |-> [f |-> s]] : s \in below}
                    \cup {[allOf |-> <<s>>] : s \in below}
                    \cup {[anyOf |-> <<s>>] : s \in below}
                    \cup {[oneOf |-> <<[type |-> "string"], s>>] : s \in below}

\* _.cloneDeep leaves the given schema as it was; only the copy's own $ref
\* is looked at.
wrapSpecifiedSchema(schema) ==
    [type       |-> "object",
     required   |-> <<INTERNAL_WRAPPER>>,
     properties |-> (INTERNAL_WRAPPER :>
                        (IF "ref" \in DOMAIN schema
                         THEN [ref |-> "root-document.json" \o schema.ref]
                         ELSE schema))]

WrapSchema ==
    /\ derived.phase = "stored"
    /\ derived' = [phase |-> "wrapped", given |-> derived.given, stored |-> derived.stored,
                   wrapped |-> wrapSpecifiedSchema(derived.stored)]
    /\ UNCHANGED <<builderVars, interceptVars, scanVars>>

WrapInit ==
    /\ IdleScanner /\ IdleInterceptor
    /\ models = EmptyMap
    /\ paths = EmptyMap
    /\ schemas = EmptyMap
    /\ stack = <<>>
    /\ call = NoCall
    /\ built = NoBuilds
    /\ \E schema \in NestedSchemas(MaxNesting) :
            derived = [phase |-> "stored", given |-> schema, stored |-> schema]

WrapNext == WrapSchema

WrapSpec == WrapInit /\ [][WrapNext]_vars

\* Every reference in a schema, wherever it sits.
RECURSIVE ReferencesIn(_)
ReferencesIn(schema) ==
    IF "ref" \in DOMAIN schema THEN {schema.ref}
    ELSE UNION {CASE k = "items" -> ReferencesIn(schema.items)
                  [] k = "properties" ->
                        UNION {ReferencesIn(schema.properties[p]) :
                                    p \in DOMAIN schema.properties}
                  [] k \in {"allOf", "anyOf", "oneOf"} ->
                        UNION {ReferencesIn(schema[k][i]) : i \in DOMAIN schema[k]}
                  [] OTHER -> {} : k \in DOMAIN schema}

\* The references that resolve against the whole document.
RootReferences == {"root-document.json" \o schemaReference(c).ref : c \in {"A", "B"}}

IsWrapped == derived.phase = "wrapped"

\* C24: every reference of a wrapped schema, the schema itself or one
\* nested under items, properties, allOf, anyOf or oneOf, resolves against
\* the whole-document root, and the stored schema is as it was.
C24_ReferencesRootedWhenWrapped ==
    IsWrapped =>
        /\ ReferencesIn(derived.wrapped) \subseteq RootReferences
        /\ derived.stored = derived.given

\* The same for a schema that is itself a reference or holds none.
OwnReferenceRooted ==
    (IsWrapped /\ ("ref" \in DOMAIN derived.given \/ ReferencesIn(derived.given) = {}))
        => C24_ReferencesRootedWhenWrapped


-----------------------------------------------------------------------------
\* The parameters of the served handler that are not marked required (Query
\* and Header set no required; Path sets required: true) and that the
\* request arrived without.
AbsentOptionalParameters ==
    LET declared == DeclaredParameters(decorators[exchange.handler])
    IN  {declared[i] : i \in {k \in DOMAIN declared :
                                /\ declared[k].dec \in {"Query", "Header"}
                                /\ ValueIn(exchange.before, declared[k]) = Undefined}}

\* C26: a declared parameter that is not marked required and that the
\* request omits contributes no validation error and is left absent in the
\* request.
C26_AbsentOptionalAccepted ==
    (Served /\ exchange.status # 415) =>
        \A p \in AbsentOptionalParameters :
            /\ \A k \in DOMAIN exchange.collected : exchange.collected[k][1] # Label(p)
            /\ ValueIn(exchange.after, p) = Undefined

\* The omitted parameter is left absent in the request.
AbsentStaysAbsent ==
    (Served /\ exchange.status # 415) =>
        \A p \in AbsentOptionalParameters : ValueIn(exchange.after, p) = Undefined


-----------------------------------------------------------------------------
\* C29: a request rejected with 400 has its path, query and header
\* collections as they arrived: no parameter was rewritten to a coerced
\* value.
C29_RejectedRequestUntouched ==
    (Served /\ exchange.status = 400) =>
        /\ exchange.after.params = exchange.before.params
        /\ exchange.after.query = exchange.before.query
        /\ exchange.after.headers = exchange.before.headers

\* A rejected request whose every declared parameter failed is as it arrived.
RejectedWithNoValidParameter ==
    (/\ Served /\ exchange.status = 400
     /\ \A k \in DOMAIN exchange.trace : exchange.trace[k].ev # "setParameterInRequest")
        => exchange.after = exchange.before


-----------------------------------------------------------------------------
\* The scan of applications whose controller K2 declares its handler under
\* a name of its own or under the name of K1's first handler.

HandlerNames ==
    {[e \in {"e1", "e2", "e3", "h"} |-> IF e = "e3" THEN name ELSE e] : name \in {"e3", "e1"}}

NamedPrograms ==
    {Program(<<>>, onK1, <<>>, route, rest) @@ ("names" :> names) :
        onK1 \in TagsChoices("b"), route \in RouteChoices, rest \in RestChoices,
        names \in HandlerNames}

NameInit ==
    /\ IdleInterceptor
    /\ derived = EmptyMap
    /\ models = ModelGraph(<<"B", "A">>, <<"A", "String">>)
    /\ paths = EmptyMap
    /\ schemas = EmptyMap
    /\ stack = <<>>
    /\ call = NoCall
    /\ built = NoBuilds
    /\ decorators \in NamedPrograms
    /\ metadata = Decorate(EmptyMap, decorators, 1)
    /\ scan = [phase |-> "module", mi |-> 1, ci |-> 0, ei |-> 0, xi |-> 0]
    /\ modBase = FreshBaseOpInfo
    /\ ctlBase = FreshBaseOpInfo
    /\ opInfo = EmptyMap
    /\ scanLog = EmptyMap

NameSpec == NameInit /\ [][ScanNext]_vars

\* The places <<path, method>> of the document that hold an operation.
Places == UNION {{<<p, m>> : m \in DOMAIN paths[p]} : p \in DOMAIN paths}

\* C27: after a successful scan no two operations of the document share an
\* operationId, handlers of the same name on different controllers
\* included.
C27_OperationIdsUnique ==
    scan.phase = "done" =>
        \A a, b \in Places :
            a # b => paths[a[1]][a[2]].operationId # paths[b[1]][b[2]].operationId

\* The same for applications whose handlers all have names of their own.
DistinctNames ==
    \A e, f \in Endpoints : e # f => FunctionName(e) # FunctionName(f)

DistinctNamesDistinctIds == DistinctNames => C27_OperationIdsUnique


-----------------------------------------------------------------------------
\* The operation info of endpoint e scanned with no sibling before it: the
\* cascade through its module, its controller and itself, from a fresh
\* baseOpInfo.
ScannedAlone(e) ==
    LET ofModule     == checkParentMetadata(
                            getAllMetadata(metadata, ClassSlot(ModuleOf(e))),
                            FreshBaseOpInfo)
        ofController == checkParentMetadata(
                            getAllMetadata(metadata, ClassSlot(ControllerOf(e))), ofModule)
        endpointMetadata == getAllMetadata(metadata, FnSlot(e))
    IN  checkEndpointArgumentMetadata(
            getAllParameterMetadata(metadata, e),
            checkEndpointMetadata(endpointMetadata,
                NewOpInfo(ofController, FunctionName(e), endpointMetadata[METHOD])))

\* C28: scanning an endpoint leaves its controller's base cascade state
\* unchanged and scanning a controller leaves its module's unchanged (each
\* changes only when the scan enters the next controller or module), so
\* the operation info and the operation of an endpoint are those of the
\* endpoint scanned with no sibling before it.
C28_ScopesIsolated ==
    /\ [][ctlBase' # ctlBase => (scan.phase = "controller" /\ scan'.phase = "endpoint")]_vars
    /\ [][modBase' # modBase => (scan.phase = "module" /\ scan'.phase = "controller")]_vars
    /\ [](opInfo # EmptyMap =>
            /\ opInfo.info = ScannedAlone(opInfo.endpoint)
            /\ opInfo.oasOperation = oasOperation(ScannedAlone(opInfo.endpoint)))

\* Endpoint e2 is being scanned after its sibling e1, which has a route and
\* tags of its own, was registered.
C28_Witness ==
    /\ opInfo # EmptyMap /\ opInfo.endpoint = "e2"
    /\ "e1" \in DOMAIN scanLog /\ scanLog["e1"].outcome = "registered"
    /\ Carries("e1", "Tags")
    /\ \E i \in DOMAIN decorators["e1"] :
            /\ decorators["e1"][i].dec = "RequestMapping"
            /\ decorators["e1"][i].route = <<":", "i", "d">>
    /\ opInfo.info.tags = ctlBase.tags


-----------------------------------------------------------------------------
\* The validator set the interceptor builds for endpoint e.
ValidatedParameters(e) ==
    Range(buildValidationData(getAllParameterMetadata(metadata, e)).parameters)

\* C30: every parameter listed in an endpoint's registered operation,
\* cascaded from a Parameter declaration of the module or the controller
\* or declared on the endpoint itself, has a validator in the endpoint's
\* validator set, which intercept runs on each request.
C30_ListedParametersValidated ==
    \A e \in Endpoints : \A pm \in OperationsOf(e) :
        LET parameters == paths[pm[1]][pm[2]].parameters
        IN  \A i \in DOMAIN parameters :
                \E vp \in ValidatedParameters(e) :
                    /\ vp.name = parameters[i].name
                    /\ vp.parameter = parameters[i]

\* The parameters an argument decorator of the handler declared are listed
\* and validated.
ArgumentParametersValidated ==
    \A pm \in OperationsOf("e1") :
        \A p \in Range(ParametersOn(decorators["e1 arguments"])) :
            /\ \E i \in DOMAIN paths[pm[1]][pm[2]].parameters :
                    paths[pm[1]][pm[2]].parameters[i].name = p.name
            /\ \E vp \in ValidatedParameters("e1") : vp.parameter = p

=============================================================================
